---- MODULE Spec2Model ----
(***************************************************************************)
(* A model of the demonstration flows of CIE-program/summer-2025:          *)
(*   - the dual vector-store chatbot  (SW1/3.RAG-VectorDBs)                *)
(*   - the multimodal PDF chatbot     (SW1/4.RAG-MultiModal1)              *)
(*   - the student badge API          (SW2/StudentNFT/Python)              *)
(* Every flow is its own process, so each has its own next-state relation  *)
(* and specification over the shared variable tuple.  External services    *)
(* (vector stores, LLM, pinning service, chain node) are inputs chosen     *)
(* with \E: what they return and whether they raise.                       *)
(***************************************************************************)
EXTENDS Integers, Sequences, FiniteSets, TLC

(***************************************************************************)
(* Bounds of the model                                                     *)
(***************************************************************************)
\* number of distinct passage texts
NumTexts == 6
\* longest list of texts (and of metadata) given to one add_knowledge call
MaxAddTexts == 2
\* concurrent POST /mintBadge requests
NumMintReqs == 3
\* concurrent POST /uploadMetadata requests
NumUploadReqs == 2
\* largest totalSupply the contract reports
MaxSupply == 3
\* calls of load_or_create_index in one behaviour
MaxCalls == 3
\* pages of a PDF given to PDFMultimodalProcessor
NumPdfPages == 2
\* images of such a PDF
MaxPdfImages == 3
\* ERC-20 contracts CheckFungibleToken.py reads: DAI, WETH, Tether, BNB
NumTokens == 4
\* k of the query made by the page (query_index(..., k=8))
TopK == 8
\* vectors in the index queried
MaxNodes == 3
\* method calls on one PDFMultimodalProcessor in one behaviour
MaxProcOps == 3

(***************************************************************************)
(* Program constants                                                       *)
(***************************************************************************)
\* search_knowledge(..., top_k: int = 3, ...); generate_response and
\* compare_databases pass top_k=3
DefaultTopK == 3
\* unique_contexts[:5]
MaxContexts == 5

\* passage texts are opaque strings "t1", "t2", ...
Text(i) == "t" \o ToString(i)
Texts == {Text(i) : i \in 1 .. NumTexts}

SeqsUpTo(S, n) == UNION {[1 .. k -> S] : k \in 0 .. n}

Take(s, n) == SubSeq(s, 1, IF Len(s) < n THEN Len(s) ELSE n)

Min(a, b) == IF a < b THEN a ELSE b

VARIABLES
  \* ---- VectorDBChatbot object --------------------------------------
  use_pinecone,       \* self.use_pinecone
  use_qdrant,         \* self.use_qdrant
  pinecone_index,     \* TRUE when self.pinecone_index has been assigned
  qdrant_collection,  \* TRUE when self.qdrant_collection has been assigned
  pcStore,            \* records held by the Pinecone index: id -> record
  qdStore,            \* records held by the Qdrant collection: id -> record
  uuidNext,           \* the next value uuid.uuid4() hands out
  addCalls,           \* add_knowledge calls made so far (0 or 1)
  addOut,             \* what the last add_knowledge call did
  \* ---- search_knowledge / generate_response / compare_databases ----
  queryOp,            \* the last query operation and its inputs
  search_results,     \* the dict search_knowledge returned
  context,            \* the context string of the system prompt
  completions,        \* completion calls issued by the last operation
  reply,              \* what the last operation returned to its caller
  \* ---- badge API: POST /mintBadge ----------------------------------
  txCount,            \* web3.eth.get_transaction_count(accountAddress)
  pending,            \* transactions the node accepted and has not mined
  mpc,                \* where each mintBadge request stands
  nonce,              \* the local variable nonce of each request
  reads,              \* get_nonce calls of each request
  sends,              \* send_raw_transaction calls of each request
  sentNonce,          \* the nonce of the transaction each request broadcast
  raisedAt,           \* the step of each request that raised, if any
  mined,              \* transactions included in a block
  mresp,             \* the response of each request
  \* ---- badge API: POST /uploadMetadata -----------------------------
  upc,                \* where each uploadMetadata request stands
  imgUp,              \* outcome of uploadFileToPinata, per request
  shortUp,            \* outcome of the URL shortener, per request
  metaUp,             \* outcome of uploadMetadataToPinata, per request
  logUp,              \* outcome of the write of the local file, per request
  badge_data,         \* the list each request read from the local file
  mirror,             \* StudentBadgeData.json
  pinnedImages,       \* images held by the pinning service
  pinnedMeta,         \* metadata documents held by the pinning service
  uresp,              \* the response of each request
  ureq,               \* the payload of each request and whether the image exists
  \* ---- badge API: GET /list_minted_badges --------------------------
  totalSupply,        \* what contract.functions.totalSupply().call() gives
  tokenURI,           \* what tokenURI(token_id).call() gives, per token id
  gateway,            \* what requests.get(metadata_uri) gives, per token id
  lresp,              \* the response of GET /list_minted_badges
  cresp,              \* the response of GET /canmint/<badge_type>
  gresp,              \* the response of GET /getMintedCount/<badge_type>
  \* ---- multimodal PDF chatbot: load_or_create_index ----------------
  pdf,                   \* the document held by temp.pdf
  faiss_index_file,      \* faiss_index.index
  nodes_data_file,       \* nodes_data.pkl
  processed_images_file, \* processed_images.pkl
  mmpc,                  \* where the running load_or_create_index call stands
  mm_calls,              \* load_or_create_index calls made so far
  mm_local,              \* the local variables of the running call
  mm_printed,            \* the last message load_or_create_index printed
  mm_counts,             \* parser, captioning, embedding and file-write calls
  mm_result,             \* what the last call returned or raised
  \* ---- RAG-MultiModal.py: PDFMultimodalProcessor --------------------
  proc_pc,               \* "off", or "ready" once the object is constructed
  proc_ops,              \* method calls made so far
  proc,                  \* self.index, self.documents, self.metadata
  proc_db,               \* the directory ./pdf_multimodal_db and its files
  proc_out,              \* the last method call: its input and what it gave
  \* ---- CheckFungibleToken.py ----------------------------------------
  tk_status,             \* "off", "running", "finished", or "error" (exit)
  tk_pc,                 \* the token being read and the statement reached
  tk_chain,              \* what the contract of each token answers
  tk_globals,            \* symbol, decimals, totalSupply, addr_balance
  tk_calls,              \* calls made, per token and contract method
  tk_failed,             \* calls that raised
  tk_printed,            \* what the script has printed
  \* ---- process start ------------------------------------------------
  st_prog,               \* the program started
  st_env,                \* the environment variables that are set
  st_status,             \* "off", "starting", "serving" or "failed"
  st_served,             \* the endpoints that have served a request
  st_calls,              \* the requests sent to the pinning service
  \* ---- retrieval ----------------------------------------------------
  rt_pc,                 \* "off", "ready", or "done" once a query was made
  rt_nodes,              \* the nodes (documents) behind the index
  rt_rank,               \* positions of the vectors, nearest to the query first
  rt_out                 \* the last query: its k, the index's answer, the result

chatVars == <<use_pinecone, use_qdrant, pinecone_index, qdrant_collection>>
storeVars == <<pcStore, qdStore, uuidNext, addCalls, addOut>>
queryVars == <<queryOp, search_results, context, completions, reply>>

mintVars == <<txCount, pending, mined, mpc, nonce, reads, sends, sentNonce,
              raisedAt, mresp>>
uploadVars == <<upc, imgUp, shortUp, metaUp, logUp, badge_data, mirror,
                pinnedImages, pinnedMeta, uresp, ureq>>
listVars == <<totalSupply, tokenURI, gateway, lresp, cresp, gresp>>
badgeVars == <<mintVars, uploadVars, listVars>>
mmFiles == <<faiss_index_file, nodes_data_file, processed_images_file>>
mmVars == <<pdf, mmFiles, mmpc, mm_calls, mm_local, mm_printed, mm_counts,
            mm_result>>

procVars == <<proc_pc, proc_ops, proc, proc_db, proc_out>>

tokenVars == <<tk_status, tk_pc, tk_chain, tk_globals, tk_calls, tk_failed,
               tk_printed>>
\* the programs that are neither of the chatbots nor the badge API
startVars == <<st_prog, st_env, st_status, st_served, st_calls>>
retrVars == <<rt_pc, rt_nodes, rt_rank, rt_out>>
restVars == <<tokenVars, startVars, retrVars>>

vars == <<chatVars, storeVars, queryVars, badgeVars, mmVars, procVars, restVars>>

(***************************************************************************)
(* VectorDBChatbot.__init__, _init_pinecone, _init_qdrant                  *)
(***************************************************************************)
\* The object after construction.  want_*: the use_* arguments; has_key:
\* pinecone_api_key is truthy; *_fails: the store's initialisation raises.
ChatbotInit(want_pc, has_key, pc_fails, want_qd, qd_fails) ==
  /\ use_pinecone = (want_pc /\ ~(has_key /\ pc_fails))
  /\ pinecone_index = (want_pc /\ has_key /\ ~pc_fails)
  /\ use_qdrant = (want_qd /\ ~qd_fails)
  /\ qdrant_collection = (want_qd /\ ~qd_fails)

(***************************************************************************)
(* VectorDBChatbot.add_knowledge                                           *)
(***************************************************************************)
\* str(uuid.uuid4()): the n-th value drawn; no two draws agree, and none
\* agrees with an id a caller chose
Uuid(n) == "uuid-" \o ToString(n)

\* self.embedding_model.encode: a function of the text alone
Embed(text) == <<"embedding", text>>

\* the metadata dicts a caller passes: with an id, without one, and one whose
\* own 'text' key differs from the text it travels with
MetaChoices ==
  { [id |-> "m1", topic |-> "programming"],
    [topic |-> "programming"],
    [id |-> "m2", text |-> Text(2)] }

\* the default metadata without the generated id
DefaultMetadataNoId(texts, u) ==
  [i \in 1 .. Len(texts) |-> [text |-> texts[i]]]

\* metadata = [{"text": text, "id": str(uuid.uuid4())} for text in texts]
DefaultMetadata(texts, u) ==
  [i \in 1 .. Len(texts) |-> [text |-> texts[i], id |-> Uuid(u + i - 1)]]

\* {"text": text, **meta}: the keys of meta win
MergeMeta(text, meta) ==
  [k \in {"text"} \cup DOMAIN meta |->
     IF k \in DOMAIN meta THEN meta[k] ELSE text]

\* meta.get("id", str(uuid.uuid4())): the default is evaluated at every call
MetaId(meta, fresh) == IF "id" \in DOMAIN meta THEN meta["id"] ELSE fresh

\* the list built by the loop over zip(texts, embeddings, metadata); the loop
\* of each store draws its own uuid4() values, starting at u
StoreRecords(texts, metadata, u) ==
  [i \in 1 .. Min(Len(texts), Len(metadata)) |->
     [id |-> MetaId(metadata[i], Uuid(u + i - 1)),
      values |-> Embed(texts[i]),
      metadata |-> MergeMeta(texts[i], metadata[i])]]

\* the store after upsert(recs): a later record of the same id replaces an
\* earlier one
RECURSIVE Upsert(_, _)
Upsert(store, recs) ==
  IF recs = <<>> THEN store
  ELSE LET r == Head(recs)
           put == [i \in DOMAIN store \cup {r.id} |->
                     IF i = r.id THEN [values |-> r.values, metadata |-> r.metadata]
                     ELSE store[i]]
       IN Upsert(put, Tail(recs))

\* a store's block with its except clause removed
StoreBlockNoExcept(store, handle, texts, metadata, u, upsert_raises) ==
  LET recs == StoreRecords(texts, metadata, u)
      raised == ~handle \/ upsert_raises
  IN [store |-> IF raised THEN store ELSE Upsert(store, recs),
      outcome |-> IF raised THEN "raised" ELSE "ok",
      sent |-> recs,
      uuid |-> u + Len(recs),
      propagates |-> raised]

\* try: build the records, upsert them; except Exception: print.  handle: the
\* client attribute exists (else AttributeError, raised inside the try).
StoreBlock(store, handle, texts, metadata, u, upsert_raises) ==
  LET recs == StoreRecords(texts, metadata, u)
      raised == ~handle \/ upsert_raises
  IN [store |-> IF raised THEN store ELSE Upsert(store, recs),
      outcome |-> IF raised THEN "raised" ELSE "ok",
      sent |-> recs,
      uuid |-> u + Len(recs),
      propagates |-> FALSE]

\* a block that is not entered
SkippedBlock(store, u) ==
  [store |-> store, outcome |-> "skipped", sent |-> <<>>, uuid |-> u,
   propagates |-> FALSE]

AddTextLists == SeqsUpTo({Text(i) : i \in 1 .. MaxAddTexts}, MaxAddTexts)
\* metadata: None (given = FALSE) or a list of dicts of any length
AddMetadata ==
  {[given |-> FALSE, list |-> <<>>]}
    \cup {[given |-> TRUE, list |-> l] : l \in SeqsUpTo(MetaChoices, MaxAddTexts)}

add_knowledge(texts, metadata, pc_raises, qd_raises) ==
  /\ addCalls = 0
  /\ addCalls' = addCalls + 1
  /\ IF texts = <<>>
     THEN /\ addOut' = [texts |-> texts, metadata |-> <<>>, pinecone |-> "skipped",
                        qdrant |-> "skipped", raised |-> FALSE,
                        pc_raises |-> pc_raises, qd_raises |-> qd_raises,
                        uuidPinecone |-> uuidNext, uuidQdrant |-> uuidNext,
                        given |-> metadata.given, encode_calls |-> 0,
                        pcSent |-> <<>>, qdSent |-> <<>>]
          /\ UNCHANGED <<pcStore, qdStore, uuidNext>>
     ELSE LET md == IF metadata.given THEN metadata.list
                    ELSE DefaultMetadata(texts, uuidNext)
              u0 == IF metadata.given THEN uuidNext ELSE uuidNext + Len(texts)
              pc == IF use_pinecone
                    THEN StoreBlock(pcStore, pinecone_index, texts, md, u0, pc_raises)
                    ELSE SkippedBlock(pcStore, u0)
              qd == IF ~pc.propagates /\ use_qdrant
                    THEN StoreBlock(qdStore, qdrant_collection, texts, md, pc.uuid,
                                    qd_raises)
                    ELSE SkippedBlock(qdStore, pc.uuid)
          IN /\ pcStore' = pc.store
             /\ qdStore' = qd.store
             /\ uuidNext' = qd.uuid
             /\ addOut' = [texts |-> texts, metadata |-> md, pinecone |-> pc.outcome,
                           qdrant |-> qd.outcome,
                           raised |-> pc.propagates \/ qd.propagates,
                           pc_raises |-> pc_raises, qd_raises |-> qd_raises,
                           uuidPinecone |-> u0, uuidQdrant |-> pc.uuid,
                           given |-> metadata.given, encode_calls |-> 1,
                           pcSent |-> pc.sent, qdSent |-> qd.sent]
  /\ UNCHANGED <<chatVars, queryVars, badgeVars, mmVars, procVars, restVars>>

AddKnowledge ==
  /\ addCalls = 0
  /\ \E texts \in AddTextLists, metadata \in AddMetadata, pc_raises, qd_raises \in BOOLEAN :
    add_knowledge(texts, metadata, pc_raises, qd_raises)

\* what a store may hold before the chatbot writes to it
EmptyStore == [i \in {} |-> {}]
PriorStores ==
  { EmptyStore,
    [i \in {"m1"} |-> [values |-> Embed(Text(1)),
                        metadata |-> [text |-> Text(1), id |-> "m1"]]],
    [i \in {"x9"} |-> [values |-> Embed(Text(2)), metadata |-> [source |-> "other"]]] }


(***************************************************************************)
(* VectorDBChatbot.search_knowledge                                        *)
(***************************************************************************)
\* A match as a store returns it, by its metadata (Pinecone) or payload
\* (Qdrant): the records add_knowledge wrote carry a 'text' key, a record of
\* another writer of the same index need not.
Matches == {[text |-> t] : t \in Texts} \cup {[source |-> "other"]}

\* What a store answers to one query: it raises, or returns at most top_k
\* matches.
Responses(top_k) ==
  {[raises |-> TRUE, matches |-> <<>>]}
    \cup {[raises |-> FALSE, matches |-> m] : m \in SeqsUpTo(Matches, top_k)}

\* the texts of the matches that have one, in order
RECURSIVE MatchTexts(_)
MatchTexts(matches) ==
  IF matches = <<>> THEN <<>>
  ELSE IF "text" \in DOMAIN Head(matches)
       THEN <<Head(matches).text>> \o MatchTexts(Tail(matches))
       ELSE MatchTexts(Tail(matches))

\* Texts are opaque, so the responses are taken up to renaming: the k-th
\* distinct text to occur in the two responses (Pinecone's first) is Text(k).
FirstSeenOrder(ts) ==
  \A i \in 1 .. Len(ts) : \A k \in 2 .. NumTexts :
    ts[i] = Text(k) => \E j \in 1 .. i - 1 : ts[j] = Text(k - 1)

ResponsePairs ==
  {p \in Responses(DefaultTopK) \X Responses(DefaultTopK) :
     FirstSeenOrder(MatchTexts(p[1].matches) \o MatchTexts(p[2].matches))}

\* for match in ...: results[store].append({"text": match[...]['text'], ...}):
\* the entries appended before a match without 'text' raises KeyError stay in
\* the list
RECURSIVE ReadMatches(_, _)
ReadMatches(matches, acc) ==
  IF matches = <<>> THEN [list |-> acc, raised |-> FALSE]
  ELSE IF "text" \notin DOMAIN Head(matches)
       THEN [list |-> acc, raised |-> TRUE]
       ELSE ReadMatches(Tail(matches),
                        Append(acc, [text |-> Head(matches).text,
                                     metadata |-> Head(matches)]))

\* one store's block of search_knowledge: if enabled and targeted, try: query,
\* read the matches; except Exception: print
\* queries: the calls of the store's query method (none is made when the
\* client attribute is missing)
SearchBlock(entered, handle, resp) ==
  IF ~entered THEN [list |-> <<>>, outcome |-> "skipped", queries |-> 0]
  ELSE IF ~handle THEN [list |-> <<>>, outcome |-> "raised", queries |-> 0]
  ELSE IF resp.raises THEN [list |-> <<>>, outcome |-> "raised", queries |-> 1]
  ELSE LET r == ReadMatches(resp.matches, <<>>)
       IN [list |-> r.list, outcome |-> IF r.raised THEN "raised" ELSE "ok",
           queries |-> 1]

DbTypes == {"pinecone", "qdrant", "both"}

\* search_knowledge with both blocks entered whatever the target
search_knowledge_untargeted(db_type, pc_resp, qd_resp) ==
  LET pc == SearchBlock(use_pinecone, pinecone_index, pc_resp)
      qd == SearchBlock(use_qdrant, qdrant_collection, qd_resp)
  IN [pinecone |-> pc.list, qdrant |-> qd.list,
      pcOutcome |-> pc.outcome, qdOutcome |-> qd.outcome,
      pcQueries |-> pc.queries, qdQueries |-> qd.queries]

search_knowledge(db_type, pc_resp, qd_resp) ==
  LET pc == SearchBlock(use_pinecone /\ db_type \in {"pinecone", "both"},
                        pinecone_index, pc_resp)
      qd == SearchBlock(use_qdrant /\ db_type \in {"qdrant", "both"},
                        qdrant_collection, qd_resp)
  IN [pinecone |-> pc.list, qdrant |-> qd.list,
      pcOutcome |-> pc.outcome, qdOutcome |-> qd.outcome,
      pcQueries |-> pc.queries, qdQueries |-> qd.queries]

SearchKnowledge ==
  /\ queryOp = [op |-> "none"]
  /\ \E db_type \in DbTypes, p \in ResponsePairs :
    LET r == search_knowledge(db_type, p[1], p[2])
    IN /\ queryOp' = [op |-> "search", db_type |-> db_type,
                      pcResp |-> p[1], qdResp |-> p[2],
                      pcOutcome |-> r.pcOutcome, qdOutcome |-> r.qdOutcome,
                      pcQueries |-> r.pcQueries, qdQueries |-> r.qdQueries]
       /\ search_results' = [pinecone |-> r.pinecone, qdrant |-> r.qdrant]
       /\ reply' = search_results'
       /\ UNCHANGED <<context, completions, chatVars, storeVars, badgeVars, mmVars, procVars, restVars>>

(***************************************************************************)
(* VectorDBChatbot.generate_response                                       *)
(***************************************************************************)
\* the "\n\n" between two passages of the context string
SEP == "<newline><newline>"
NoRelevant == "No relevant information found."

\* [r["text"] for r in results]
TextsOf(results) == [i \in 1 .. Len(results) |-> results[i].text]

\* the loop without its "if context not in seen"
RECURSIVE DedupLoopNoCheck(_, _, _)
DedupLoopNoCheck(rest, seen, unique) ==
  IF rest = <<>> THEN unique
  ELSE DedupLoopNoCheck(Tail(rest), seen \cup {Head(rest)}, Append(unique, Head(rest)))

\* for context in all_contexts: if context not in seen: seen.add(context);
\* unique_contexts.append(context)
RECURSIVE DedupLoop(_, _, _)
DedupLoop(rest, seen, unique) ==
  IF rest = <<>> THEN unique
  ELSE IF Head(rest) \in seen
       THEN DedupLoop(Tail(rest), seen, unique)
       ELSE DedupLoop(Tail(rest), seen \cup {Head(rest)}, Append(unique, Head(rest)))

\* "\n\n".join(parts), as the sequence of its passages and separators
RECURSIVE Join(_)
Join(parts) ==
  IF parts = <<>> THEN <<>>
  ELSE IF Len(parts) = 1 THEN <<Head(parts)>>
  ELSE <<Head(parts), SEP>> \o Join(Tail(parts))

\* the join alone, without the "else" of the conditional expression
PromptContextNoDefault(unique_contexts) ==
  Join(Take(unique_contexts, MaxContexts))

\* context = "\n\n".join(unique_contexts[:5]) if unique_contexts else "No ..."
PromptContext(unique_contexts) ==
  IF unique_contexts # <<>> THEN Join(Take(unique_contexts, MaxContexts))
  ELSE <<NoRelevant>>

\* all_contexts: Pinecone's texts, then Qdrant's
AllContexts(results) == TextsOf(results.pinecone) \o TextsOf(results.qdrant)

GenerateResponse ==
  /\ queryOp = [op |-> "none"]
  /\ \E db_type \in DbTypes, p \in ResponsePairs, completion_raises \in BOOLEAN :
    LET r == search_knowledge(db_type, p[1], p[2])
        found == [pinecone |-> r.pinecone, qdrant |-> r.qdrant]
        unique_contexts == DedupLoop(AllContexts(found), {}, <<>>)
    IN /\ queryOp' = [op |-> "generate", db_type |-> db_type,
                      pcResp |-> p[1], qdResp |-> p[2],
                      pcOutcome |-> r.pcOutcome, qdOutcome |-> r.qdOutcome,
                      pcQueries |-> r.pcQueries, qdQueries |-> r.qdQueries]
       /\ search_results' = found
       /\ context' = PromptContext(unique_contexts)
       /\ completions' = completions + 1
       /\ reply' = IF completion_raises
                   THEN "Sorry, I encountered an error generating the response"
                   ELSE "completion"
       /\ UNCHANGED <<chatVars, storeVars, badgeVars, mmVars, procVars, restVars>>

(***************************************************************************)
(* VectorDBChatbot.compare_databases                                       *)
(***************************************************************************)
CompareDatabases ==
  /\ queryOp = [op |-> "none"]
  /\ \E p \in ResponsePairs :
    LET pinecone_results == search_knowledge("pinecone", p[1], p[2])
        qdrant_results == search_knowledge("qdrant", p[1], p[2])
    IN /\ queryOp' = [op |-> "compare", db_type |-> "both",
                      pcResp |-> p[1], qdResp |-> p[2],
                      pcOutcome |-> pinecone_results.pcOutcome,
                      qdOutcome |-> qdrant_results.qdOutcome,
                      pcQueries |-> pinecone_results.pcQueries
                                      + qdrant_results.pcQueries,
                      qdQueries |-> pinecone_results.qdQueries
                                      + qdrant_results.qdQueries]
       /\ reply' = [pinecone_results |-> pinecone_results.pinecone,
                    qdrant_results |-> qdrant_results.qdrant]
       /\ search_results' = [pinecone |-> pinecone_results.pinecone,
                             qdrant |-> qdrant_results.qdrant]
       /\ UNCHANGED <<context, completions, chatVars, storeVars, badgeVars, mmVars, procVars, restVars>>

(***************************************************************************)
(* Badge API: POST /mintBadge                                              *)
(* The development server handles requests in threads, so the steps of two *)
(* requests interleave at every call to the node.                          *)
(***************************************************************************)
MintReqs == 1 .. NumMintReqs

\* a step of a mintBadge request touches nothing of the other programs
MintOnly ==
  UNCHANGED <<chatVars, storeVars, queryVars, uploadVars, listVars, mmVars, procVars, restVars>>

NoResponse == [status |-> 0, kind |-> "none"]
\* return jsonify({"error": str(e)}), 400
Error400 == [status |-> 400, kind |-> "error"]
\* return jsonify({"tx_hash": ...})
TxHash200 == [status |-> 200, kind |-> "tx_hash"]

\* a nonce handed out by a sequencer that counts the requests in flight
get_nonce_sequenced(address) ==
  txCount + Cardinality({q \in MintReqs : mpc[q] \in {"nonce", "signed"}})

\* web3.eth.get_transaction_count(address): the transactions of the account
\* that are in a block
get_nonce(address) == txCount

\* an except clause that starts the request over
MintExceptRetry(r, step) ==
  /\ mpc' = [mpc EXCEPT ![r] = "start"]
  /\ raisedAt' = [raisedAt EXCEPT ![r] = step]
  /\ mresp' = mresp

\* except Exception as e: return jsonify({"error": str(e)}), 400
MintExcept(r, step) ==
  /\ mpc' = [mpc EXCEPT ![r] = "done"]
  /\ raisedAt' = [raisedAt EXCEPT ![r] = step]
  /\ mresp' = [mresp EXCEPT ![r] = Error400]

\* nonce = get_nonce(accountAddress)
MintGetNonce(r) ==
  /\ mpc[r] = "start"
  /\ reads' = [reads EXCEPT ![r] = @ + 1]
  /\ \/ /\ nonce' = [nonce EXCEPT ![r] = get_nonce("accountAddress")]
        /\ mpc' = [mpc EXCEPT ![r] = "nonce"]
        /\ UNCHANGED <<raisedAt, mresp>>
     \/ /\ MintExcept(r, "get_nonce")
        /\ UNCHANGED nonce
  /\ UNCHANGED <<txCount, pending, mined, sends, sentNonce>>
  /\ MintOnly

\* txn = ...build_transaction({... "nonce": nonce ...});
\* signed_txn = web3.eth.account.sign_transaction(txn, private_key=privateKey)
MintBuildSign(r) ==
  /\ mpc[r] = "nonce"
  /\ \/ /\ mpc' = [mpc EXCEPT ![r] = "signed"]
        /\ UNCHANGED <<raisedAt, mresp>>
     \/ MintExcept(r, "build_sign")
  /\ UNCHANGED <<txCount, pending, mined, nonce, reads, sends, sentNonce>>
  /\ MintOnly

\* The node takes a transaction whose nonce is not below the account's count
\* and is not that of a pending transaction of the account (every request
\* offers the same gasPrice, so it cannot replace one).
NodeTakes(n) == n >= txCount /\ \A tx \in pending : tx.nonce # n

\* tx_hash = web3.eth.send_raw_transaction(signed_txn.raw_transaction);
\* return jsonify({"tx_hash": web3.to_hex(tx_hash)})
MintSend(r) ==
  /\ mpc[r] = "signed"
  /\ sends' = [sends EXCEPT ![r] = @ + 1]
  /\ sentNonce' = [sentNonce EXCEPT ![r] = nonce[r]]
  /\ \/ /\ NodeTakes(nonce[r])
        /\ pending' = pending \cup {[req |-> r, nonce |-> nonce[r]]}
        /\ mpc' = [mpc EXCEPT ![r] = "done"]
        /\ mresp' = [mresp EXCEPT ![r] = TxHash200]
        /\ UNCHANGED raisedAt
     \/ /\ MintExcept(r, "send")
        /\ UNCHANGED pending
  /\ UNCHANGED <<txCount, mined, nonce, reads>>
  /\ MintOnly

\* the node puts the pending transaction of the next nonce in a block
Mine ==
  \E tx \in pending :
    /\ tx.nonce = txCount
    /\ txCount' = txCount + 1
    /\ pending' = pending \ {tx}
    /\ mined' = mined \cup {tx}
    /\ UNCHANGED <<mpc, nonce, reads, sends, sentNonce, raisedAt, mresp>>
    /\ MintOnly

MintInit ==
  /\ txCount = 0
  /\ pending = {}
  /\ mined = {}
  /\ mpc = [r \in MintReqs |-> "start"]
  /\ nonce = [r \in MintReqs |-> 0]
  /\ reads = [r \in MintReqs |-> 0]
  /\ sends = [r \in MintReqs |-> 0]
  /\ sentNonce = [r \in MintReqs |-> 0]
  /\ raisedAt = [r \in MintReqs |-> "none"]
  /\ mresp = [r \in MintReqs |-> NoResponse]

MintNext ==
  \/ \E r \in MintReqs : MintGetNonce(r)
  \/ \E r \in MintReqs : MintBuildSign(r)
  \/ \E r \in MintReqs : MintSend(r)
  \/ Mine

(***************************************************************************)
(* Badge API: POST /uploadMetadata                                         *)
(***************************************************************************)
UploadReqs == 1 .. NumUploadReqs

\* a step of an uploadMetadata request touches nothing of the other programs
UploadOnly ==
  UNCHANGED <<chatVars, storeVars, queryVars, mintVars, listVars, mmVars, procVars, restVars,
              ureq>>

\* return jsonify({"metadata_uri": metadataURL}), 200
MetadataUri200 == [status |-> 200, kind |-> "metadata_uri"]
\* an exception that leaves the view function: Flask answers 500
Unhandled500 == [status |-> 500, kind |-> "unhandled"]

\* the record appended for a request; requests are told apart by the student
BadgeRecord(u) ==
  [student_name |-> "student-" \o ToString(u),
   metadata_uri |-> "ipfs-meta-" \o ToString(u)]

\* a raising uploadMetadataToPinata whose exception is dropped
UploadMetaRaisedSwallowed(u) ==
  /\ metaUp' = [metaUp EXCEPT ![u] = "raised"]
  /\ upc' = [upc EXCEPT ![u] = "read"]
  /\ UNCHANGED uresp

\* metaDataCid = uploadMetadataToPinata(metadata) raises: nothing in
\* upload_metadata catches it
UploadMetaRaised(u) ==
  /\ metaUp' = [metaUp EXCEPT ![u] = "raised"]
  /\ upc' = [upc EXCEPT ![u] = "done"]
  /\ uresp' = [uresp EXCEPT ![u] = Unhandled500]

\* required_fields = ["student_name", "class_semester", "university", "badge_type"]
required_fields == {"student_name", "class_semester", "university", "badge_type"}

\* the requests made: the keys of request.json, all four or all but one, and
\* whether the file <badge_type>.PNG exists
UploadPayloads ==
  {[fields |-> f, image_file |-> b] :
     f \in {required_fields} \cup {required_fields \ {k} : k \in required_fields},
     b \in BOOLEAN}

\* the validation without the test of the image file
UploadValidateNoImageCheck(u) ==
  /\ upc[u] = "start"
  /\ IF required_fields \subseteq ureq[u].fields
     THEN /\ upc' = [upc EXCEPT ![u] = "image"]
          /\ UNCHANGED uresp
     ELSE /\ upc' = [upc EXCEPT ![u] = "done"]
          /\ uresp' = [uresp EXCEPT ![u] = Error400]
  /\ UNCHANGED <<imgUp, shortUp, metaUp, logUp, badge_data, mirror, pinnedImages,
                 pinnedMeta>>
  /\ UploadOnly

\* if not all(field in data for field in required_fields): return ..., 400
\* if not os.path.isfile(image_path): return ..., 400
UploadValidate(u) ==
  /\ upc[u] = "start"
  /\ LET fields_ok == required_fields \subseteq ureq[u].fields
         image_exists == ureq[u].image_file
     IN
       IF fields_ok /\ image_exists
       THEN /\ upc' = [upc EXCEPT ![u] = "image"]
            /\ UNCHANGED uresp
       ELSE /\ upc' = [upc EXCEPT ![u] = "done"]
            /\ uresp' = [uresp EXCEPT ![u] = Error400]
  /\ UNCHANGED <<imgUp, shortUp, metaUp, logUp, badge_data, mirror, pinnedImages,
                 pinnedMeta>>
  /\ UploadOnly

\* image_cid = uploadFileToPinata(...)
UploadImage(u) ==
  /\ upc[u] = "image"
  /\ \/ /\ imgUp' = [imgUp EXCEPT ![u] = "ok"]
        /\ pinnedImages' = pinnedImages \cup {u}
        /\ upc' = [upc EXCEPT ![u] = "shorten"]
        /\ UNCHANGED uresp
     \/ /\ imgUp' = [imgUp EXCEPT ![u] = "raised"]
        /\ upc' = [upc EXCEPT ![u] = "done"]
        /\ uresp' = [uresp EXCEPT ![u] = Unhandled500]
        /\ UNCHANGED pinnedImages
  /\ UNCHANGED <<shortUp, metaUp, logUp, badge_data, mirror, pinnedMeta>>
  /\ UploadOnly

\* short_url = s.tinyurl.short(image_url)
UploadShorten(u) ==
  /\ upc[u] = "shorten"
  /\ \/ /\ shortUp' = [shortUp EXCEPT ![u] = "ok"]
        /\ upc' = [upc EXCEPT ![u] = "meta"]
        /\ UNCHANGED uresp
     \/ /\ shortUp' = [shortUp EXCEPT ![u] = "raised"]
        /\ upc' = [upc EXCEPT ![u] = "done"]
        /\ uresp' = [uresp EXCEPT ![u] = Unhandled500]
  /\ UNCHANGED <<imgUp, metaUp, logUp, badge_data, mirror, pinnedImages, pinnedMeta>>
  /\ UploadOnly

\* metaDataCid = uploadMetadataToPinata(metadata)
UploadMeta(u) ==
  /\ upc[u] = "meta"
  /\ \/ /\ metaUp' = [metaUp EXCEPT ![u] = "ok"]
        /\ pinnedMeta' = pinnedMeta \cup {u}
        /\ upc' = [upc EXCEPT ![u] = "read"]
        /\ UNCHANGED uresp
     \/ /\ UploadMetaRaised(u)
        /\ UNCHANGED pinnedMeta
  /\ UNCHANGED <<imgUp, shortUp, logUp, badge_data, mirror, pinnedImages>>
  /\ UploadOnly

\* the read of the local file replaced by badge_data = []
UploadReadLogFresh(u) ==
  /\ upc[u] = "read"
  /\ badge_data' = [badge_data EXCEPT ![u] = <<>>]
  /\ upc' = [upc EXCEPT ![u] = "write"]
  /\ UNCHANGED <<imgUp, shortUp, metaUp, logUp, mirror, pinnedImages, pinnedMeta,
                 uresp>>
  /\ UploadOnly

\* if os.path.exists(local_log_path): badge_data = json.load(f)
\* else: badge_data = []
UploadReadLog(u) ==
  /\ upc[u] = "read"
  /\ badge_data' = [badge_data EXCEPT ![u] =
                      IF mirror.exists THEN mirror.data ELSE <<>>]
  /\ upc' = [upc EXCEPT ![u] = "write"]
  /\ UNCHANGED <<imgUp, shortUp, metaUp, logUp, mirror, pinnedImages, pinnedMeta,
                 uresp>>
  /\ UploadOnly

\* badge_data.append(record); with open(local_log_path, "w") as f:
\* json.dump(badge_data, f, indent=2); return ... 200.  open raises when the
\* directory ./StudentBadges is missing or not writable.
UploadWriteLog(u) ==
  /\ upc[u] = "write"
  /\ upc' = [upc EXCEPT ![u] = "done"]
  /\ \/ /\ mirror' = [exists |-> TRUE,
                      data |-> Append(badge_data[u], BadgeRecord(u))]
        /\ logUp' = [logUp EXCEPT ![u] = "ok"]
        /\ uresp' = [uresp EXCEPT ![u] = MetadataUri200]
     \/ /\ logUp' = [logUp EXCEPT ![u] = "raised"]
        /\ uresp' = [uresp EXCEPT ![u] = Unhandled500]
        /\ UNCHANGED mirror
  /\ UNCHANGED <<imgUp, shortUp, metaUp, badge_data, pinnedImages, pinnedMeta>>
  /\ UploadOnly

\* the local file before the first request: absent, or holding older records
PriorMirrors ==
  { [exists |-> FALSE, data |-> <<>>],
    [exists |-> TRUE, data |-> <<>>],
    [exists |-> TRUE,
     data |-> <<[student_name |-> "student-0", metadata_uri |-> "ipfs-meta-0"]>>] }

UploadIdle ==
  /\ upc = [u \in UploadReqs |-> "start"]
  /\ imgUp = [u \in UploadReqs |-> "none"]
  /\ shortUp = [u \in UploadReqs |-> "none"]
  /\ metaUp = [u \in UploadReqs |-> "none"]
  /\ logUp = [u \in UploadReqs |-> "none"]
  /\ badge_data = [u \in UploadReqs |-> <<>>]
  /\ pinnedImages = {}
  /\ pinnedMeta = {}
  /\ uresp = [u \in UploadReqs |-> NoResponse]

UploadInit ==
  /\ UploadIdle
  /\ mirror \in PriorMirrors
  /\ ureq \in [UploadReqs -> UploadPayloads]

UploadOff ==
  /\ UploadIdle
  /\ mirror = [exists |-> FALSE, data |-> <<>>]
  /\ ureq = [u \in UploadReqs |-> [fields |-> required_fields, image_file |-> TRUE]]

UploadNext ==
  \/ \E u \in UploadReqs : UploadValidate(u)
  \/ \E u \in UploadReqs : UploadImage(u)
  \/ \E u \in UploadReqs : UploadShorten(u)
  \/ \E u \in UploadReqs : UploadMeta(u)
  \/ \E u \in UploadReqs : UploadReadLog(u)
  \/ \E u \in UploadReqs : UploadWriteLog(u)

\* no other request is between its first step and its response
OneAtATime(u) == \A v \in UploadReqs \ {u} : upc[v] \in {"start", "done"}

\* the requests handled one at a time: a request starts after the one before
\* it was answered
SeqUploadNext ==
  \/ \E u \in UploadReqs : OneAtATime(u) /\ UploadValidate(u)
  \/ \E u \in UploadReqs : OneAtATime(u) /\ UploadImage(u)
  \/ \E u \in UploadReqs : OneAtATime(u) /\ UploadShorten(u)
  \/ \E u \in UploadReqs : OneAtATime(u) /\ UploadMeta(u)
  \/ \E u \in UploadReqs : OneAtATime(u) /\ UploadReadLog(u)
  \/ \E u \in UploadReqs : OneAtATime(u) /\ UploadWriteLog(u)

(***************************************************************************)
(* Badge API: GET /list_minted_badges                                      *)
(***************************************************************************)
\* the attribute list upload_metadata pins for a student
Attributes(student) ==
  << "Student" :> student, "Class" :> "Sem-5", "University" :> "PESU",
     "Date" :> "2025-07-01", "Badge Type" :> "Gold" >>

EmptyDict == [k \in {} |-> ""]

\* What a token URI may resolve to: a document upload_metadata pinned, a JSON
\* object with neither key, and a document with an attribute without a key.
MetadataDocs ==
  { [image_cid |-> "cid-A", certificate_url |-> "https://tinyurl.com/A",
     attributes |-> Attributes("Asha")],
    [image_cid |-> "cid-B", certificate_url |-> "https://tinyurl.com/B",
     attributes |-> Attributes("Ravi")],
    [name |-> "some other JSON"],
    [certificate_url |-> "https://tinyurl.com/C", attributes |-> <<EmptyDict>>] }

\* requests.get(metadata_uri): raises, answers another status, or answers 200
\* with a JSON document
GatewayAnswers ==
  {[kind |-> "raises"], [kind |-> "non200"]}
    \cup {[kind |-> "ok", doc |-> d] : d \in MetadataDocs}

\* list(attr.keys())[0] raises IndexError on an attribute without a key
WellFormed(doc) ==
  "attributes" \in DOMAIN doc =>
    \A i \in 1 .. Len(doc.attributes) : DOMAIN doc.attributes[i] # {}

\* dict.get(key, default)
DictGet(dict, key, default) == IF key \in DOMAIN dict THEN dict[key] ELSE default

\* {list(attr.keys())[0]: list(attr.values())[0] for attr in attributes}
RECURSIVE StudentCollection(_, _)
StudentCollection(attributes, acc) ==
  IF attributes = <<>> THEN acc
  ELSE LET attr == Head(attributes)
           k == CHOOSE x \in DOMAIN attr : TRUE
       IN StudentCollection(Tail(attributes),
            [x \in DOMAIN acc \cup {k} |-> IF x = k THEN attr[k] ELSE acc[x]])

\* badge_info = OrderedDict([...])
BadgeInfo(doc) ==
  LET student_collection ==
        StudentCollection(DictGet(doc, "attributes", <<>>), EmptyDict)
  IN "Student Name" :> DictGet(student_collection, "Student", "N/A")
       @@ "Badge Grant Date" :> DictGet(student_collection, "Date", "N/A")
       @@ "Badge Type" :> DictGet(student_collection, "Badge Type", "N/A")
       @@ "Class or Semester" :> DictGet(student_collection, "Class", "N/A")
       @@ "University" :> DictGet(student_collection, "University", "N/A")
       @@ "Certificate URL" :> DictGet(doc, "certificate_url", "N/A")

ListError(where) == [status |-> 400, kind |-> "error", where |-> where]

\* a range that stops one token short
TokenIdsShort(latest_id) == [i \in 1 .. latest_id - 1 |-> i]

\* range(1, latest_id + 1)
TokenIds(latest_id) == [i \in 1 .. latest_id |-> i]

\* the second loop with "except: continue"
RECURSIVE FetchLoopSkipErrors(_, _)
FetchLoopSkipErrors(ids, results) ==
  IF ids = <<>> THEN [status |-> 200, kind |-> "list", body |-> results]
  ELSE LET answer == gateway[Head(ids)]
       IN IF answer.kind = "ok" /\ WellFormed(answer.doc)
          THEN FetchLoopSkipErrors(Tail(ids), Append(results, BadgeInfo(answer.doc)))
          ELSE FetchLoopSkipErrors(Tail(ids), results)

\* for metadata_uri in metadata_uris: try: requests.get; if status_code != 200:
\* continue; ...results.append(badge_info); except Exception: return ..., 400
RECURSIVE FetchLoop(_, _)
FetchLoop(ids, results) ==
  IF ids = <<>> THEN [status |-> 200, kind |-> "list", body |-> results]
  ELSE LET answer == gateway[Head(ids)]
       IN IF answer.kind = "raises" THEN ListError("certificate")
          ELSE IF answer.kind = "non200" THEN FetchLoop(Tail(ids), results)
          ELSE IF ~WellFormed(answer.doc) THEN ListError("certificate")
          ELSE FetchLoop(Tail(ids), Append(results, BadgeInfo(answer.doc)))

\* the view function answering a total supply of zero with an empty list
list_minted_badges_empty_list ==
  IF totalSupply.raises THEN ListError("tokenURI")
  ELSE IF totalSupply.value <= 0 THEN [status |-> 200, kind |-> "list", body |-> <<>>]
  ELSE LET ids == TokenIds(totalSupply.value)
       IN IF \E i \in 1 .. Len(ids) : tokenURI[ids[i]] = "raises"
          THEN ListError("tokenURI")
          ELSE FetchLoop(ids, <<>>)

\* the view function: totalSupply, the token URIs, then the documents
list_minted_badges ==
  IF totalSupply.raises THEN ListError("tokenURI")
  ELSE IF totalSupply.value <= 0 THEN [status |-> 200, kind |-> "number", number |-> 0]
  ELSE LET ids == TokenIds(totalSupply.value)
       IN IF \E i \in 1 .. Len(ids) : tokenURI[ids[i]] = "raises"
          THEN ListError("tokenURI")
          ELSE FetchLoop(ids, <<>>)

ListMintedBadges ==
  /\ lresp = NoResponse
  /\ lresp' = list_minted_badges
  /\ UNCHANGED <<totalSupply, tokenURI, gateway, cresp, gresp>>
  /\ UNCHANGED <<chatVars, storeVars, queryVars, mintVars, uploadVars, mmVars, procVars, restVars>>

\* the chain and the gateway as the request finds them; what lies beyond the
\* total supply is never read
ListInit ==
  /\ totalSupply \in {[raises |-> TRUE, value |-> 0]}
                       \cup {[raises |-> FALSE, value |-> n] : n \in 0 .. MaxSupply}
  /\ tokenURI \in [1 .. MaxSupply -> {"ok", "raises"}]
  /\ gateway \in [1 .. MaxSupply -> GatewayAnswers]
  /\ \A i \in 1 .. MaxSupply :
       i > totalSupply.value => tokenURI[i] = "ok" /\ gateway[i] = [kind |-> "non200"]
  /\ \A i \in 1 .. MaxSupply :
       tokenURI[i] = "raises" => gateway[i] = [kind |-> "non200"]
  /\ lresp = NoResponse
  /\ cresp = NoResponse
  /\ gresp = NoResponse

ListOff ==
  /\ totalSupply = [raises |-> FALSE, value |-> 0]
  /\ tokenURI = [i \in 1 .. MaxSupply |-> "ok"]
  /\ gateway = [i \in 1 .. MaxSupply |-> [kind |-> "non200"]]
  /\ lresp = NoResponse
  /\ cresp = NoResponse
  /\ gresp = NoResponse

\* the keys of the JSON object a response carries; none when the body is
\* not a JSON object (a list, a number, Flask's HTML error page)
BodyKeys(resp) ==
  IF resp.kind = "error"
  THEN IF "where" \notin DOMAIN resp THEN {"error"}
       ELSE IF resp.where = "tokenURI"
            THEN {"Unable to get the Minted Badges - Error getting the Token URI"}
            ELSE {"Unable to get the Minted Badges - Error getting Certificate and Student Badge details"}
  ELSE IF resp.kind = "can_mint" THEN {"can_mint", "minted", "cap"}
  ELSE IF resp.kind \in {"tx_hash", "metadata_uri", "minted_count"} THEN {resp.kind}
  ELSE {}

\* GET /canmint/<badge_type>: three contract calls in one try
CanMint ==
  /\ cresp = NoResponse
  /\ \E raises_at \in {"none", "canMintBadge", "getMintedCount", "badgeTypes"} :
       cresp' = IF raises_at = "none" THEN [status |-> 200, kind |-> "can_mint"]
                ELSE Error400
  /\ UNCHANGED <<totalSupply, tokenURI, gateway, lresp, gresp>>
  /\ UNCHANGED <<chatVars, storeVars, queryVars, mintVars, uploadVars, mmVars, procVars, restVars>>

\* GET /getMintedCount/<badge_type>: one contract call in a try
GetMintedCount ==
  /\ gresp = NoResponse
  /\ \E call_raises \in BOOLEAN :
       gresp' = IF call_raises THEN Error400
                ELSE [status |-> 200, kind |-> "minted_count"]
  /\ UNCHANGED <<totalSupply, tokenURI, gateway, lresp, cresp>>
  /\ UNCHANGED <<chatVars, storeVars, queryVars, mintVars, uploadVars, mmVars, procVars, restVars>>

ListNext ==
  \/ ListMintedBadges
  \/ CanMint
  \/ GetMintedCount

(***************************************************************************)
(* Multimodal PDF chatbot: load_or_create_index and what it calls          *)
(***************************************************************************)
MMOnly == UNCHANGED <<chatVars, storeVars, queryVars, badgeVars, procVars, restVars>>

\* the documents temp.pdf may hold: the text of their pages and the paths of
\* the images parser.get_images downloads for them
Documents ==
  { [pages |-> <<"intro">>, images |-> <<"img_p1_1.png">>],
    [pages |-> <<"intro", "results">>,
     images |-> <<"img_p1_1.png", "img_p2_1.png">>],
    [pages |-> <<"summary">>, images |-> <<>>],
    [pages |-> <<>>, images |-> <<>>] }

\* a file of the working directory: absent, or holding what was written
NoFile == [exists |-> FALSE]
File(content) == [exists |-> TRUE, content |-> content]
\* a file that a write cut short left behind: it exists, and reading it raises
TornFile == [exists |-> TRUE]
Readable(file) == file.exists /\ "content" \in DOMAIN file

TextNode(text, metadata) == [text |-> text, metadata |-> metadata]

\* BLIP decodes greedily: the caption is a function of the image
generate_alt_text(image_path) == "caption of " \o image_path

\* embed_model.get_text_embedding: a function of the text alone
get_text_embedding(text) == <<"bge-small", text>>

\* [TextNode(text=page["text"], metadata={"page": page["page"]}) for page in json_list]
TextNodes(doc) ==
  [i \in 1 .. Len(doc.pages) |-> TextNode(doc.pages[i], [page |-> i])]

load_processed_images ==
  IF processed_images_file.exists THEN processed_images_file.content ELSE {}

\* the loop of process_new_images: an image is captioned unless its path is
\* in processed_images
RECURSIVE ImageLoop(_, _, _)
ImageLoop(image_dicts, processed_images, new_nodes) ==
  IF image_dicts = <<>>
  THEN [new_nodes |-> new_nodes, processed_images |-> processed_images]
  ELSE LET image_path == Head(image_dicts)
       IN IF image_path \notin processed_images
          THEN ImageLoop(Tail(image_dicts), processed_images \cup {image_path},
                         Append(new_nodes,
                                TextNode(generate_alt_text(image_path),
                                         [path |-> image_path])))
          ELSE ImageLoop(Tail(image_dicts), processed_images, new_nodes)

\* faiss.IndexFlatL2(dimension) after index.add(embeddings)
FlatIndex(nodes) ==
  [vectors |-> [i \in 1 .. Len(nodes) |-> get_text_embedding(nodes[i].text)]]

\* the index and the node list a run on doc builds when processed_images.pkl
\* holds processed
Built(doc, processed) ==
  LET nodes == TextNodes(doc) \o ImageLoop(doc.images, processed, <<>>).new_nodes
  IN [index |-> FlatIndex(nodes), nodes |-> nodes]

NoLocals == [json |-> [pages |-> <<>>, images |-> <<>>], nodes |-> <<>>,
             index |-> [vectors |-> <<>>]]

Returned(index, nodes) == [kind |-> "returned", index |-> index, nodes |-> nodes]
Raised(where) == [kind |-> "raised", at |-> where]

\* the exception leaves load_or_create_index
MMRaise(where) ==
  /\ mm_result' = Raised(where)
  /\ mmpc' = "idle"
  /\ mm_local' = NoLocals

Count(field, n) == [mm_counts EXCEPT ![field] = @ + n]

IndexPersisted == faiss_index_file.exists /\ nodes_data_file.exists

\* the call and its first branch: with both files the index and the nodes are
\* read and returned, otherwise a new index is created
LoadOrCreateIndex ==
  /\ mmpc = "idle"
  /\ mm_calls < MaxCalls
  /\ mm_calls' = mm_calls + 1
  /\ IF IndexPersisted
     THEN /\ mm_printed' = "Loading existing FAISS index..."
          /\ IF Readable(faiss_index_file) /\ Readable(nodes_data_file)
             THEN mm_result' = Returned(faiss_index_file.content,
                                        nodes_data_file.content)
             ELSE mm_result' = Raised("read")
          /\ UNCHANGED <<mmpc, mm_local>>
     ELSE /\ mm_printed' = "Creating new FAISS index..."
          /\ mm_result' = [kind |-> "running"]
          /\ mmpc' = "create"
          /\ mm_local' = NoLocals
  /\ UNCHANGED <<pdf, mmFiles, mm_counts>>
  /\ MMOnly

\* parser.get_json_result(pdf_path) and the text nodes
MMParse ==
  /\ mmpc = "create"
  /\ mm_counts' = Count("parse", 1)
  /\ \E raises \in BOOLEAN :
       IF raises THEN MMRaise("parse")
       ELSE /\ mm_local' = [mm_local EXCEPT !.json = pdf, !.nodes = TextNodes(pdf)]
            /\ mmpc' = "parsed"
            /\ UNCHANGED mm_result
  /\ UNCHANGED <<pdf, mmFiles, mm_calls, mm_printed>>
  /\ MMOnly

\* load_processed_images, process_new_images (which saves the set) and the
\* merge of the nodes; generate_alt_text may raise on the first new image
MMImages ==
  /\ mmpc = "parsed"
  /\ ~processed_images_file.exists \/ Readable(processed_images_file)
  /\ LET loop == ImageLoop(mm_local.json.images, load_processed_images, <<>>)
     IN \E raises \in {FALSE} \cup {loop.new_nodes # <<>>} :
          IF raises
          THEN /\ MMRaise("caption")
               /\ mm_counts' = Count("caption", 1)
               /\ UNCHANGED processed_images_file
          ELSE /\ mm_counts' = [mm_counts EXCEPT !.write = @ + 1,
                                                  !.caption = @ + Len(loop.new_nodes)]
               /\ processed_images_file' = File(loop.processed_images)
               /\ mm_local' = [mm_local EXCEPT !.nodes = @ \o loop.new_nodes]
               /\ mmpc' = "imaged"
               /\ UNCHANGED mm_result
  /\ UNCHANGED <<pdf, faiss_index_file, nodes_data_file, mm_calls, mm_printed>>
  /\ MMOnly

\* pickle.load(f) of load_processed_images raises on a file cut short
MMImagesUnreadable ==
  /\ mmpc = "parsed"
  /\ processed_images_file.exists /\ ~Readable(processed_images_file)
  /\ MMRaise("load_processed_images")
  /\ UNCHANGED <<pdf, mmFiles, mm_calls, mm_printed, mm_counts>>
  /\ MMOnly

\* the embeddings and the index; len(embeddings[0]) raises IndexError when
\* there is no node
MMEmbed ==
  /\ mmpc = "imaged"
  /\ mm_counts' = Count("embed", Len(mm_local.nodes))
  /\ IF mm_local.nodes = <<>> THEN MMRaise("dimension")
     ELSE /\ mm_local' = [mm_local EXCEPT !.index = FlatIndex(mm_local.nodes)]
          /\ mmpc' = "embedded"
          /\ UNCHANGED mm_result
  /\ UNCHANGED <<pdf, mmFiles, mm_calls, mm_printed>>
  /\ MMOnly

\* faiss.write_index(index, FAISS_INDEX_FILE)
MMWriteIndex ==
  /\ mmpc = "embedded"
  /\ \E raises \in BOOLEAN :
       IF raises THEN MMRaise("write_index") /\ UNCHANGED <<faiss_index_file, mm_counts>>
       ELSE /\ faiss_index_file' = File(mm_local.index)
            /\ mm_counts' = Count("write", 1)
            /\ mmpc' = "index_written"
            /\ UNCHANGED <<mm_result, mm_local>>
  /\ UNCHANGED <<pdf, nodes_data_file, processed_images_file, mm_calls, mm_printed>>
  /\ MMOnly

\* the nodes file as the call leaves it when the write is skipped
PickleDumpSkipped(nodes) == nodes_data_file

\* with open(NODES_DATA_FILE, "wb") as f: pickle.dump(nodes, f)
PickleDump(nodes) == File(nodes)

\* the write of the nodes file and the return
MMWriteNodes ==
  /\ mmpc = "index_written"
  /\ \E raises \in BOOLEAN :
       IF raises THEN MMRaise("open") /\ UNCHANGED <<nodes_data_file, mm_counts>>
       ELSE /\ nodes_data_file' = PickleDump(mm_local.nodes)
            /\ mm_counts' = Count("write", 1)
            /\ mm_result' = Returned(mm_local.index, mm_local.nodes)
            /\ mmpc' = "idle"
            /\ mm_local' = NoLocals
  /\ UNCHANGED <<pdf, faiss_index_file, processed_images_file, mm_calls, mm_printed>>
  /\ MMOnly

\* the process is stopped while a call runs.  A write under way is cut short:
\* of processed_images.pkl in process_new_images, of faiss_index.index in
\* faiss.write_index, of nodes_data.pkl in pickle.dump (the file is opened,
\* hence created, before the dump).
Interrupt ==
  /\ mmpc \notin {"idle", "off"}
  /\ mmpc' = "idle"
  /\ mm_local' = NoLocals
  /\ mm_result' = [kind |-> "interrupted"]
  /\ \E torn \in BOOLEAN :
       /\ processed_images_file' =
            IF torn /\ mmpc = "parsed" THEN TornFile ELSE processed_images_file
       /\ faiss_index_file' =
            IF torn /\ mmpc = "embedded" THEN TornFile ELSE faiss_index_file
       /\ nodes_data_file' =
            IF torn /\ mmpc = "index_written" THEN TornFile ELSE nodes_data_file
  /\ UNCHANGED <<pdf, mm_calls, mm_printed, mm_counts>>
  /\ MMOnly

\* the user uploads another document: temp.pdf is overwritten
UploadPdf ==
  /\ mmpc = "idle"
  /\ mm_calls < MaxCalls
  /\ pdf' \in Documents \ {pdf}
  /\ UNCHANGED <<mmFiles, mmpc, mm_calls, mm_local, mm_printed, mm_counts, mm_result>>
  /\ MMOnly

\* the persisted files are deleted by hand, all or some of them
DeleteFiles ==
  /\ mmpc = "idle"
  /\ mm_calls < MaxCalls
  /\ \E del \in (SUBSET {"index", "nodes", "images"}) \ {{}} :
       /\ faiss_index_file' = IF "index" \in del THEN NoFile ELSE faiss_index_file
       /\ nodes_data_file' = IF "nodes" \in del THEN NoFile ELSE nodes_data_file
       /\ processed_images_file' =
            IF "images" \in del THEN NoFile ELSE processed_images_file
       /\ mmFiles' # mmFiles
  /\ UNCHANGED <<pdf, mmpc, mm_calls, mm_local, mm_printed, mm_counts, mm_result>>
  /\ MMOnly

\* no call made yet in this process
MMIdle ==
  /\ mmpc = "idle"
  /\ mm_calls = 0
  /\ mm_local = NoLocals
  /\ mm_printed = ""
  /\ mm_counts = [parse |-> 0, caption |-> 0, embed |-> 0, write |-> 0]
  /\ mm_result = [kind |-> "none"]

\* the working directory as the process finds it: empty, or as a run of an
\* earlier process on some document left it
MMInit ==
  /\ MMIdle
  /\ pdf \in Documents
  /\ \/ faiss_index_file = NoFile /\ nodes_data_file = NoFile
          /\ processed_images_file = NoFile
     \/ \E doc \in Documents :
          /\ TextNodes(doc) # <<>>
          /\ faiss_index_file = File(Built(doc, {}).index)
          /\ nodes_data_file = File(Built(doc, {}).nodes)
          /\ processed_images_file = File(ImageLoop(doc.images, {}, <<>>).processed_images)

\* the multimodal chatbot not started
MMOff ==
  /\ mmpc = "off"
  /\ mm_calls = 0
  /\ mm_local = NoLocals
  /\ mm_printed = ""
  /\ mm_counts = [parse |-> 0, caption |-> 0, embed |-> 0, write |-> 0]
  /\ mm_result = [kind |-> "none"]
  /\ pdf = [pages |-> <<>>, images |-> <<>>]
  /\ faiss_index_file = NoFile
  /\ nodes_data_file = NoFile
  /\ processed_images_file = NoFile

MMNext ==
  \/ LoadOrCreateIndex
  \/ MMParse
  \/ MMImages
  \/ MMImagesUnreadable
  \/ MMEmbed
  \/ MMWriteIndex
  \/ MMWriteNodes
  \/ Interrupt
  \/ UploadPdf
  \/ DeleteFiles

(***************************************************************************)
(* RAG-MultiModal.py: PDFMultimodalProcessor.process_pdf                   *)
(***************************************************************************)
ProcOnly == UNCHANGED <<chatVars, storeVars, queryVars, badgeVars, mmVars, restVars>>

\* what happens to an image of a page: fitz.Pixmap raises, gives a CMYK
\* pixmap (pix.n - pix.alpha >= 4) or a GRAY/RGB one; for the latter BLIP
\* and the Mistral call may each raise
ImageKinds ==
  {[pixmap |-> "raises"], [pixmap |-> "cmyk"]}
    \cup {[pixmap |-> "ok", blip_raises |-> b, mistral_raises |-> m] :
            b, m \in BOOLEAN}

\* the images of a PDF in the order of the two loops: <<page, kind>>, page by
\* page
PdfImageLists ==
  {l \in SeqsUpTo((1 .. NumPdfPages) \X ImageKinds, MaxPdfImages) :
     \A i \in 1 .. Len(l) - 1 : l[i][1] <= l[i + 1][1]}

\* a PDF: which pages have text that is not blank, and its images
PdfDocs ==
  {[has_text |-> t, images |-> l] :
     t \in [1 .. NumPdfPages -> BOOLEAN], l \in PdfImageLists}

PageText(page) == "text of page " \o ToString(page)

\* for page_num in range(len(doc)): if text.strip(): text_content.append(...)
RECURSIVE TextLoop(_, _, _)
TextLoop(doc, page, text_content) ==
  IF page > NumPdfPages THEN text_content
  ELSE TextLoop(doc, page + 1,
                IF doc.has_text[page]
                THEN Append(text_content,
                            [content |-> PageText(page), type |-> "text",
                             page |-> page])
                ELSE text_content)

extract_text_from_pdf(doc) == TextLoop(doc, 1, <<>>)

\* return f"Image analysis failed: {str(e)}"
CaptionFailed == "Image analysis failed: <error>"

\* return f"Detailed analysis unavailable: {str(e)}"
AnalysisUnavailable == "Detailed analysis unavailable: <error>"

\* generate_image_caption: the caption, or the string its except clause returns
generate_image_caption(page, img_index, kind) ==
  IF kind.blip_raises THEN CaptionFailed
  ELSE "caption p" \o ToString(page) \o " i" \o ToString(img_index)

\* analyze_image_with_mistral: the analysis, or the string its except clause
\* returns
analyze_image_with_mistral(kind, caption) ==
  IF kind.mistral_raises THEN AnalysisUnavailable
  ELSE "analysis of " \o caption

\* enumerate(image_list): the index of the i-th image of the list on its page
ImgIndex(images, i) ==
  Cardinality({j \in 1 .. i - 1 : images[j][1] = images[i][1]})

\* the dict appended for a GRAY/RGB image
ImageEntry(page, img_index, kind) ==
  LET caption == generate_image_caption(page, img_index, kind)
      detailed_desc == analyze_image_with_mistral(kind, caption)
  IN [content |-> "Image Caption: " \o caption \o "\nDetailed Analysis: "
                    \o detailed_desc,
      type |-> "image", page |-> page, image_index |-> img_index,
      caption |-> caption, detailed_description |-> detailed_desc]

\* the loop with its try/except removed: the first raising image ends it
RECURSIVE ImageContentLoopNoTry(_, _, _)
ImageContentLoopNoTry(images, i, image_content) ==
  IF i > Len(images) THEN [content |-> image_content, raised |-> FALSE]
  ELSE IF images[i][2].pixmap = "raises"
       THEN [content |-> image_content, raised |-> TRUE]
       ELSE ImageContentLoopNoTry(
              images, i + 1,
              IF images[i][2].pixmap = "ok"
              THEN Append(image_content,
                          ImageEntry(images[i][1], ImgIndex(images, i), images[i][2]))
              ELSE image_content)

\* for img_index, img in enumerate(image_list): try: pix = fitz.Pixmap(...);
\* if pix.n - pix.alpha < 4: ...image_content.append(...)
\* except Exception: print(...); continue
RECURSIVE ImageContentLoop(_, _, _)
ImageContentLoop(images, i, image_content) ==
  IF i > Len(images) THEN [content |-> image_content, raised |-> FALSE]
  ELSE ImageContentLoop(
         images, i + 1,
         IF images[i][2].pixmap = "ok"
         THEN Append(image_content,
                     ImageEntry(images[i][1], ImgIndex(images, i), images[i][2]))
         ELSE image_content)

\* extract_images_from_pdf without the try/except around an image
extract_images_no_try(doc) == ImageContentLoopNoTry(doc.images, 1, <<>>)

extract_images_from_pdf(doc) == ImageContentLoop(doc.images, 1, <<>>)

\* the "Error processing image on page ..." lines printed
PrintedImageErrors(doc) ==
  Cardinality({i \in 1 .. Len(doc.images) : doc.images[i][2].pixmap = "raises"})

\* process_pdf: text_content + image_content.  fitz.open raises on a file that
\* is not a PDF.
ProcessPdf ==
  /\ proc_pc = "ready"
  /\ proc_ops = 0
  /\ proc_ops' = 1
  /\ \E doc \in PdfDocs, open_raises \in BOOLEAN :
       LET images == extract_images_from_pdf(doc)
       IN proc_out' =
            IF open_raises \/ images.raised
            THEN [op |-> "process_pdf", doc |-> doc, outcome |-> "raised",
                  where |-> IF open_raises THEN "open" ELSE "image"]
            ELSE [op |-> "process_pdf", doc |-> doc, outcome |-> "returned",
                  content |-> extract_text_from_pdf(doc) \o images.content,
                  printed_errors |-> PrintedImageErrors(doc)]
  /\ UNCHANGED <<proc_pc, proc, proc_db>>
  /\ ProcOnly

\* self.index = None; self.documents = []; self.metadata = []
NoIndex == [built |-> FALSE]
ProcObjectInit == proc = [index |-> NoIndex, documents |-> <<>>, metadata |-> <<>>]

NoDatabase == [dir |-> FALSE, index |-> NoFile, metadata |-> NoFile,
               documents |-> NoFile]

\* RAG-MultiModal.py not started
ProcOff ==
  /\ proc_pc = "off"
  /\ proc_ops = 0
  /\ ProcObjectInit
  /\ proc_db = NoDatabase
  /\ proc_out = [op |-> "none"]

(***************************************************************************)
(* RAG-MultiModal.py: build_vector_database, save_database, load_database  *)
(***************************************************************************)
\* the content lists handed to build_vector_database: what process_pdf
\* returns for the PDFs of at most one image
BuildContents ==
  {extract_text_from_pdf(doc) \o extract_images_from_pdf(doc).content :
     doc \in {pd \in PdfDocs :
                /\ Len(pd.images) <= 1
                /\ \A i \in 1 .. Len(pd.images) :
                     pd.images[i][2] = [pixmap |-> "ok", blip_raises |-> FALSE,
                                        mistral_raises |-> FALSE]}}

\* self.embedding_model.encode([item['content'] for item in content_list])
create_embeddings(content_list) ==
  [i \in 1 .. Len(content_list) |-> <<"all-MiniLM-L6-v2", content_list[i].content>>]

\* faiss.IndexFlatIP(dimension) and what index.add has put in it
FaissIndex(vectors) == [built |-> TRUE, vectors |-> vectors]

\* build_vector_database.  raises_at: "none", "encode" (create_embeddings
\* raises, before self.index is assigned) or "add" (index.add raises, after
\* it is).
build_vector_database(self, content_list, raises_at) ==
  LET texts == [i \in 1 .. Len(content_list) |-> content_list[i].content]
  IN IF content_list = <<>> THEN [self |-> self, outcome |-> "returned"]
     ELSE IF raises_at = "encode" THEN [self |-> self, outcome |-> "raised"]
     ELSE IF raises_at = "add"
          THEN [self |-> [self EXCEPT !.index = FaissIndex(<<>>)],
                outcome |-> "raised"]
          ELSE [self |-> [index |-> FaissIndex(create_embeddings(content_list)),
                          documents |-> texts, metadata |-> content_list],
                outcome |-> "returned"]

BuildVectorDatabase ==
  /\ proc_pc = "ready"
  /\ proc_ops < MaxProcOps
  /\ proc_ops' = proc_ops + 1
  /\ \E content_list \in BuildContents, raises_at \in {"none", "encode", "add"} :
       LET r == build_vector_database(proc, content_list, raises_at)
       IN /\ proc' = r.self
          /\ proc_out' = [op |-> "build_vector_database", outcome |-> r.outcome,
                          content_list |-> content_list]
  /\ UNCHANGED <<proc_pc, proc_db>>
  /\ ProcOnly

\* a write of `content` that fails (or is stopped) when failed is true, and
\* then leaves the old file or a torn one
Written(old, content, failed, torn) ==
  IF ~failed THEN File(content) ELSE IF torn THEN TornFile ELSE old

\* save_database: os.makedirs, faiss.write_index, json.dump(self.metadata),
\* pickle.dump(self.documents).  fails_at names the write that fails.
save_database(self, db, fails_at, torn) ==
  IF ~self.index.built THEN [db |-> db, outcome |-> "returned"]
  ELSE [db |-> [dir |-> TRUE,
                index |-> Written(db.index, self.index, fails_at = "index", torn),
                metadata |->
                  IF fails_at = "index" THEN db.metadata
                  ELSE Written(db.metadata, self.metadata,
                               fails_at = "metadata", torn),
                documents |->
                  IF fails_at \in {"index", "metadata"} THEN db.documents
                  ELSE Written(db.documents, self.documents,
                               fails_at = "documents", torn)],
        outcome |-> IF fails_at = "none" THEN "returned" ELSE "raised"]

SaveDatabase ==
  /\ proc_pc = "ready"
  /\ proc_ops < MaxProcOps
  /\ proc_ops' = proc_ops + 1
  /\ \E fails_at \in {"none", "index", "metadata", "documents"},
        torn \in BOOLEAN :
       LET r == save_database(proc, proc_db, fails_at, torn)
       IN /\ proc_db' = r.db
          /\ proc_out' = [op |-> "save_database", outcome |-> r.outcome]
  /\ UNCHANGED <<proc_pc, proc>>
  /\ ProcOnly

\* load_database with each read guarded: a file that cannot be read is skipped
load_database_lenient(self, db) ==
  [self |-> [index |-> IF Readable(db.index) THEN db.index.content
                       ELSE self.index,
             documents |-> IF Readable(db.documents) THEN db.documents.content
                           ELSE self.documents,
             metadata |-> IF Readable(db.metadata) THEN db.metadata.content
                          ELSE self.metadata],
   outcome |-> "returned",
   loaded |-> Readable(db.index) /\ Readable(db.documents)
                /\ Readable(db.metadata)]

\* load_database: returns when the directory is missing; faiss.read_index,
\* json.load and pickle.load each assign an attribute, or raise on a file
\* that is missing or cannot be read
load_database(self, db) ==
  IF ~db.dir THEN [self |-> self, outcome |-> "returned", loaded |-> FALSE]
  ELSE IF ~Readable(db.index)
       THEN [self |-> self, outcome |-> "raised", loaded |-> FALSE]
  ELSE IF ~Readable(db.metadata)
       THEN [self |-> [self EXCEPT !.index = db.index.content],
             outcome |-> "raised", loaded |-> FALSE]
  ELSE IF ~Readable(db.documents)
       THEN [self |-> [self EXCEPT !.index = db.index.content,
                                   !.metadata = db.metadata.content],
             outcome |-> "raised", loaded |-> FALSE]
  ELSE [self |-> [index |-> db.index.content,
                  documents |-> db.documents.content,
                  metadata |-> db.metadata.content],
        outcome |-> "returned", loaded |-> TRUE]

LoadDatabase ==
  /\ proc_pc = "ready"
  /\ proc_ops < MaxProcOps
  /\ proc_ops' = proc_ops + 1
  /\ LET r == load_database(proc, proc_db)
     IN /\ proc' = r.self
        /\ proc_out' = [op |-> "load_database", outcome |-> r.outcome,
                        loaded |-> r.loaded]
  /\ UNCHANGED <<proc_pc, proc_db>>
  /\ ProcOnly

\* a file of ./pdf_multimodal_db removed by hand
DeleteDbFile ==
  /\ proc_pc = "ready"
  /\ proc_ops < MaxProcOps
  /\ proc_db.dir
  /\ proc_ops' = proc_ops + 1
  /\ \E name \in {"index", "metadata", "documents"} :
       /\ proc_db[name].exists
       /\ proc_db' = [proc_db EXCEPT ![name] = NoFile]
  /\ proc_out' = [op |-> "delete"]
  /\ UNCHANGED <<proc_pc, proc>>
  /\ ProcOnly

\* ./pdf_multimodal_db as the program finds it: absent, or as an earlier run
\* saved it for a PDF of NumPdfPages pages of text
PriorDatabases ==
  {NoDatabase,
   LET all_text == [has_text |-> [p \in 1 .. NumPdfPages |-> TRUE], images |-> <<>>]
       built == build_vector_database(
                  [index |-> NoIndex, documents |-> <<>>, metadata |-> <<>>],
                  extract_text_from_pdf(all_text), "none").self
   IN save_database(built, NoDatabase, "none", FALSE).db}

\* the object after __init__
ProcInit ==
  /\ proc_pc = "ready"
  /\ proc_ops = 0
  /\ ProcObjectInit
  /\ proc_db \in PriorDatabases
  /\ proc_out = [op |-> "none"]

ProcNext ==
  \/ ProcessPdf
  \/ BuildVectorDatabase
  \/ SaveDatabase
  \/ LoadDatabase
  \/ DeleteDbFile

(***************************************************************************)
(* CheckFungibleToken.py: the script reads four ERC-20 contracts in turn   *)
(***************************************************************************)
TokenOnly ==
  UNCHANGED <<chatVars, storeVars, queryVars, badgeVars, mmVars, procVars, startVars,
              retrVars>>

Tokens == 1 .. NumTokens

Zeros(n) == [i \in 1 .. n |-> 0]

\* What a contract may answer.  uint256 amounts are Python ints of any size:
\* an amount is the sequence of its decimal digits.
TokenContracts ==
  { [symbol |-> "DAI", decimals |-> 18,
     totalSupply |-> <<1, 2, 3>> \o Zeros(18),
     balanceOf |-> <<5>> \o Zeros(17)],
    [symbol |-> "USDT", decimals |-> 6,
     totalSupply |-> <<1, 2, 3, 4, 5, 6, 7>>,
     balanceOf |-> <<0>>],
    [symbol |-> "BNB", decimals |-> 0,
     totalSupply |-> <<4, 2>>,
     balanceOf |-> <<7, 0>>] }

RECURSIVE StripTrailingZeros(_)
StripTrailingZeros(digits) ==
  IF digits = <<>> THEN <<>>
  ELSE IF digits[Len(digits)] = 0
       THEN StripTrailingZeros(SubSeq(digits, 1, Len(digits) - 1))
       ELSE digits

\* raw // 10**decimals: the floor division, which drops the fraction
FloorDivPow10(raw, dec) ==
  [int |-> IF Len(raw) > dec THEN SubSeq(raw, 1, Len(raw) - dec) ELSE <<0>>,
   frac |-> <<0>>]

\* raw / 10**decimals, the float Python prints: the digits before the point
\* and those after it ("123.0" is int <<1,2,3>>, frac <<0>>).  Exact for the
\* amounts of at most 15 significant digits used here.
TrueDivPow10(raw, dec) ==
  LET n == Len(raw)
      int == IF n > dec THEN SubSeq(raw, 1, n - dec) ELSE <<0>>
      tail == IF n >= dec THEN SubSeq(raw, n - dec + 1, n)
              ELSE Zeros(dec - n) \o raw
      frac == StripTrailingZeros(tail)
  IN [int |-> int, frac |-> IF frac = <<>> THEN <<0>> ELSE frac]

\* the statements of one token, in order
TokenSteps == <<"symbol", "decimals", "totalSupply", "balanceOf", "print">>

StepAfter(pc) ==
  IF pc.step < Len(TokenSteps) THEN [token |-> pc.token, step |-> pc.step + 1]
  ELSE [token |-> pc.token + 1, step |-> 1]

\* a failing call caught and the script going on with the next token
OnCallFailureSkipToken(pc) ==
  [status |-> IF pc.token = NumTokens THEN "finished" ELSE "running",
   pc |-> [token |-> pc.token + 1, step |-> 1]]

\* contract.functions.<method>().call() raises: nothing catches it, the
\* interpreter prints the traceback and exits
OnCallFailure(pc) == [status |-> "error", pc |-> pc]

\* the value a statement assigns from what the call returned
Assigned(method, returned, globals) ==
  IF method \in {"totalSupply", "balanceOf"}
  THEN TrueDivPow10(returned, globals.decimals)
  ELSE returned

\* the global the statement of a method assigns
GlobalOf(method) == IF method = "balanceOf" THEN "addr_balance" ELSE method

\* one of the four contract calls of the current token
TokenCall ==
  /\ tk_status = "running"
  /\ TokenSteps[tk_pc.step] # "print"
  /\ LET method == TokenSteps[tk_pc.step]
     IN /\ tk_calls' = [tk_calls EXCEPT ![tk_pc.token][method] = @ + 1]
        /\ \E call_raises \in BOOLEAN :
             IF call_raises
             THEN /\ tk_status' = OnCallFailure(tk_pc).status
                  /\ tk_pc' = OnCallFailure(tk_pc).pc
                  /\ tk_failed' = tk_failed + 1
                  /\ UNCHANGED tk_globals
             ELSE /\ tk_globals' =
                       [tk_globals EXCEPT ![GlobalOf(method)] =
                          Assigned(method, tk_chain[tk_pc.token][method], tk_globals)]
                  /\ tk_pc' = StepAfter(tk_pc)
                  /\ UNCHANGED <<tk_status, tk_failed>>
  /\ UNCHANGED <<tk_chain, tk_printed>>
  /\ TokenOnly

\* print("===== %s =====" % symbol); print("Total Supply:", totalSupply);
\* print("Addr Balance:", addr_balance)
TokenPrint ==
  /\ tk_status = "running"
  /\ TokenSteps[tk_pc.step] = "print"
  /\ tk_printed' = Append(tk_printed,
                          [kind |-> "token", symbol |-> tk_globals.symbol,
                           totalSupply |-> tk_globals.totalSupply,
                           addr_balance |-> tk_globals.addr_balance])
  /\ tk_pc' = StepAfter(tk_pc)
  /\ tk_status' = IF tk_pc.token = NumTokens THEN "finished" ELSE "running"
  /\ UNCHANGED <<tk_chain, tk_globals, tk_calls, tk_failed>>
  /\ TokenOnly

TokenIdle ==
  /\ tk_pc = [token |-> 1, step |-> 1]
  /\ tk_globals = [symbol |-> "", decimals |-> 0,
                   totalSupply |-> TrueDivPow10(<<0>>, 0),
                   addr_balance |-> TrueDivPow10(<<0>>, 0)]
  /\ tk_calls = [t \in Tokens |->
                   [m \in {"symbol", "decimals", "totalSupply", "balanceOf"} |-> 0]]
  /\ tk_failed = 0

\* the script after print(dai_contract), before the first call
TokenInit ==
  /\ TokenIdle
  /\ tk_status = "running"
  /\ tk_chain \in [Tokens -> TokenContracts]
  /\ tk_printed = <<[kind |-> "contract"]>>

\* the script not started
TokenOff ==
  /\ TokenIdle
  /\ tk_status = "off"
  /\ tk_chain \in [Tokens -> {CHOOSE c \in TokenContracts : c.symbol = "DAI"}]
  /\ tk_printed = <<>>

TokenNext ==
  \/ TokenCall
  \/ TokenPrint

(***************************************************************************)
(* Process start of StudentNFTAPI.py and of testPinata.py                  *)
(***************************************************************************)
StartOnly ==
  UNCHANGED <<chatVars, storeVars, queryVars, badgeVars, mmVars, procVars, tokenVars,
              retrVars>>

\* the variables StudentNFTAPI.py reads with os.getenv at import
EnvVars ==
  {"SMART_CONTRACT_ADDRESS", "ACCOUNT_PRIVATE_KEY", "ACCOUNT_ADDRESS",
   "PINATA_JWT", "PINATA_BASE_URL", "PINATA_LEGACY_URL"}

Programs == {"StudentNFTAPI", "testPinata"}

\* the variables the code of a program goes on to use in a call
Required(prog) ==
  IF prog = "testPinata" THEN {"PINATA_JWT"}
  ELSE {"SMART_CONTRACT_ADDRESS", "ACCOUNT_PRIVATE_KEY", "ACCOUNT_ADDRESS",
        "PINATA_JWT", "PINATA_LEGACY_URL"}

\* StudentNFTAPI.py, lines 19-52: os.getenv gives None for an absent
\* variable and nothing tests the values; the module fails only on
\* assert web3.is_connected() and on the open of the contract JSON
ApiStart ==
  /\ st_status = "starting"
  /\ st_prog = "StudentNFTAPI"
  /\ \E node_connected, abi_readable \in BOOLEAN :
       st_status' = IF node_connected /\ abi_readable THEN "serving" ELSE "failed"
  /\ UNCHANGED <<st_prog, st_env, st_served, st_calls>>
  /\ StartOnly

\* testPinata.py, lines 9-11: if not PINATA_JWT: raise EnvironmentError
TestPinataStart ==
  /\ st_status = "starting"
  /\ st_prog = "testPinata"
  /\ st_status' = IF "PINATA_JWT" \in st_env THEN "serving" ELSE "failed"
  /\ UNCHANGED <<st_prog, st_env, st_served, st_calls>>
  /\ StartOnly

\* the requests sent to the pinning service by an /uploadMetadata request,
\* with the variables whose value goes into them: the Authorization header
\* is f"Bearer {PINATA_JWT}" whatever PINATA_JWT is
PinataCalls ==
  {[to |-> "https://uploads.pinata.cloud/v3/files", uses |-> "PINATA_JWT"]}

\* a request served by the running API
ApiRequest ==
  /\ st_status = "serving"
  /\ st_prog = "StudentNFTAPI"
  /\ \E endpoint \in {"canmint", "mintBadge", "uploadMetadata"} :
       /\ endpoint \notin st_served
       /\ st_served' = st_served \cup {endpoint}
       /\ st_calls' = IF endpoint = "uploadMetadata"
                      THEN st_calls \cup PinataCalls
                      ELSE st_calls
  /\ UNCHANGED <<st_prog, st_env, st_status>>
  /\ StartOnly

\* a process about to start, for every set of variables present
StartInit ==
  /\ st_prog \in Programs
  /\ st_env \in SUBSET EnvVars
  /\ st_status = "starting"
  /\ st_served = {}
  /\ st_calls = {}

StartOff ==
  /\ st_prog = "StudentNFTAPI"
  /\ st_env = EnvVars
  /\ st_status = "off"
  /\ st_served = {}
  /\ st_calls = {}

StartNext ==
  \/ ApiStart
  \/ TestPinataStart
  \/ ApiRequest

(***************************************************************************)
(* Retrieval: query_index of ChatBot-MM-LParse-UI.py and                    *)
(* PDFMultimodalProcessor.search of RAG-MultiModal.py                      *)
(***************************************************************************)
RetrOnly ==
  UNCHANGED <<chatVars, storeVars, queryVars, badgeVars, mmVars, procVars,
              tokenVars, startVars>>

\* the nodes list of an index: one node per indexed vector
IndexedNodes(n) == [i \in 1 .. n |-> "node-" \o ToString(i - 1)]

\* the orders in which a flat index may rank its n vectors (positions from 0)
Rankings(n) ==
  {r \in [1 .. n -> 0 .. n - 1] : \A i, j \in 1 .. n : r[i] = r[j] => i = j}

\* index.search(query, k)[1][0]: the nearest vectors first, then -1 for
\* every neighbour the index does not have
IndexSearch(rank, k) ==
  [i \in 1 .. k |-> IF i <= Len(rank) THEN rank[i] ELSE -1]

\* list[i] of Python: a negative i counts from the end
Subscript(list, i) ==
  IF i >= 0 THEN list[i + 1] ELSE list[Len(list) + i + 1]

\* return [nodes[i] for i in indices[0]]
query_index(nodes, rank, k) ==
  LET indices == IndexSearch(rank, k)
  IN [j \in 1 .. k |-> Subscript(nodes, indices[j])]

\* for i, (score, idx) in enumerate(...): if idx != -1: results.append(...)
search(documents, rank, top_k) ==
  LET indices == IndexSearch(rank, top_k)
      Hit(j) == [rank |-> j, content |-> Subscript(documents, indices[j])]
  IN SelectSeq([j \in 1 .. top_k |-> IF indices[j] # -1 THEN Hit(j)
                                      ELSE [rank |-> 0, content |-> "none"]],
               LAMBDA x : x.rank # 0)

QueryIndex ==
  /\ rt_pc = "ready"
  /\ \E k \in 1 .. TopK :
       rt_out' = [fn |-> "query_index", k |-> k,
                  indices |-> IndexSearch(rt_rank, k),
                  result |-> query_index(rt_nodes, rt_rank, k)]
  /\ rt_pc' = "done"
  /\ UNCHANGED <<rt_nodes, rt_rank>>
  /\ RetrOnly

Search ==
  /\ rt_pc = "ready"
  /\ \E top_k \in 1 .. TopK :
       rt_out' = [fn |-> "search", k |-> top_k,
                  indices |-> IndexSearch(rt_rank, top_k),
                  result |-> search(rt_nodes, rt_rank, top_k)]
  /\ rt_pc' = "done"
  /\ UNCHANGED <<rt_nodes, rt_rank>>
  /\ RetrOnly

NoRetrieval == [fn |-> "none", k |-> 0, indices |-> <<>>, result |-> <<>>]

\* an index of 1 .. MaxNodes vectors and the ranking it gives the query
RetrInit ==
  /\ rt_pc = "ready"
  /\ \E n \in 1 .. MaxNodes :
       /\ rt_nodes = IndexedNodes(n)
       /\ rt_rank \in Rankings(n)
  /\ rt_out = NoRetrieval

RetrOff ==
  /\ rt_pc = "off"
  /\ rt_nodes = <<>>
  /\ rt_rank = <<>>
  /\ rt_out = NoRetrieval

RetrNext ==
  \/ QueryIndex
  \/ Search

\* the other programs not started
RestOff == TokenOff /\ StartOff /\ RetrOff

(***************************************************************************)
(* Initial states and specifications                                      *)
(***************************************************************************)
\* the chatbot object after __init__, for every outcome of the constructor
ChatObjectInit ==
  \E want_pc, has_key, pc_fails, want_qd, qd_fails \in BOOLEAN :
    ChatbotInit(want_pc, has_key, pc_fails, want_qd, qd_fails)

\* no add_knowledge call made yet
StoreIdle ==
  /\ uuidNext = 1
  /\ addCalls = 0
  /\ addOut = [texts |-> <<>>, metadata |-> <<>>, pinecone |-> "skipped",
               qdrant |-> "skipped", raised |-> FALSE,
               pc_raises |-> FALSE, qd_raises |-> FALSE,
               uuidPinecone |-> 1, uuidQdrant |-> 1]

\* no query made yet
QueryIdle ==
  /\ queryOp = [op |-> "none"]
  /\ search_results = [pinecone |-> <<>>, qdrant |-> <<>>]
  /\ context = <<>>
  /\ completions = 0
  /\ reply = "none"

ChatInit ==
  /\ ChatObjectInit
  /\ pcStore \in PriorStores
  /\ qdStore \in PriorStores
  /\ StoreIdle
  /\ QueryIdle

\* the chatbot process not started: the state of its variables in the
\* specifications of the other programs
ChatOff ==
  /\ ChatbotInit(FALSE, FALSE, FALSE, FALSE, FALSE)
  /\ pcStore = EmptyStore
  /\ qdStore = EmptyStore
  /\ StoreIdle
  /\ QueryIdle

\* the badge API with no request under way
BadgeOff == MintInit /\ UploadOff /\ ListOff

Init == ChatInit /\ MintInit /\ UploadInit /\ ListInit /\ MMInit /\ ProcInit
          /\ TokenInit /\ StartInit /\ RetrInit

Next == AddKnowledge \/ SearchKnowledge \/ GenerateResponse \/ CompareDatabases
          \/ MintNext \/ UploadNext \/ ListNext \/ MMNext \/ ProcNext \/ TokenNext \/ StartNext
          \/ RetrNext

Spec == Init /\ [][Next]_vars

\* add_knowledge, on stores that may hold records already
StoreInit == ChatInit /\ BadgeOff /\ MMOff /\ ProcOff /\ RestOff
StoreNext == AddKnowledge
SpecStore == StoreInit /\ [][StoreNext]_vars

\* search_knowledge, generate_response, compare_databases: what the stores
\* answer is an input of each operation, not a function of pcStore / qdStore
QueryInit ==
  /\ ChatObjectInit
  /\ pcStore = EmptyStore
  /\ qdStore = EmptyStore
  /\ StoreIdle
  /\ QueryIdle
  /\ BadgeOff
  /\ MMOff
  /\ ProcOff /\ RestOff
QueryNext == SearchKnowledge \/ GenerateResponse \/ CompareDatabases
SpecQuery == QueryInit /\ [][QueryNext]_vars

\* concurrent POST /mintBadge requests and the node
SpecMintInit == ChatOff /\ MintInit /\ UploadOff /\ ListOff /\ MMOff /\ ProcOff /\ RestOff
SpecMint == SpecMintInit /\ [][MintNext]_vars

\* concurrent POST /uploadMetadata requests
SpecUploadInit == ChatOff /\ MintInit /\ UploadInit /\ ListOff /\ MMOff /\ ProcOff /\ RestOff
SpecUpload == SpecUploadInit /\ [][UploadNext]_vars

\* POST /uploadMetadata requests handled one at a time
SpecUploadSeq == SpecUploadInit /\ [][SeqUploadNext]_vars

\* GET /list_minted_badges, for every state of the chain and the gateway
SpecListInit == ChatOff /\ MintInit /\ UploadOff /\ ListInit /\ MMOff /\ ProcOff /\ RestOff
SpecList == SpecListInit /\ [][ListNext]_vars

\* load_or_create_index calls of one process of the multimodal chatbot, the
\* uploads of documents and the deletions of files between them
SpecMMInit == ChatOff /\ BadgeOff /\ MMInit /\ ProcOff /\ RestOff
SpecMM == SpecMMInit /\ [][MMNext]_vars

\* process_pdf on every PDF of up to MaxPdfImages images
SpecExtractInit == ChatOff /\ BadgeOff /\ MMOff /\ ProcInit /\ RestOff
SpecExtract == SpecExtractInit /\ [][ProcessPdf]_vars

\* the persisted index of either program: ChatBot-MM-LParse-UI.py's two files,
\* or RAG-MultiModal.py's database directory
SpecPersistInit ==
  /\ ChatOff
  /\ BadgeOff
  /\ \/ MMInit /\ ProcOff
     \/ MMOff /\ ProcInit
  /\ RestOff
PersistNext ==
  \/ MMNext
  \/ BuildVectorDatabase
  \/ SaveDatabase
  \/ LoadDatabase
  \/ DeleteDbFile
SpecPersist == SpecPersistInit /\ [][PersistNext]_vars

\* one run of CheckFungibleToken.py, for every choice of four contracts
SpecTokenInit ==
  ChatOff /\ BadgeOff /\ MMOff /\ ProcOff /\ TokenInit /\ StartOff /\ RetrOff
SpecToken == SpecTokenInit /\ [][TokenNext]_vars

\* the start of StudentNFTAPI.py or testPinata.py under every environment
SpecStartInit ==
  ChatOff /\ BadgeOff /\ MMOff /\ ProcOff /\ TokenOff /\ StartInit /\ RetrOff
SpecStart == SpecStartInit /\ [][StartNext]_vars

\* one query against an index of every size and ranking
SpecRetrInit ==
  ChatOff /\ BadgeOff /\ MMOff /\ ProcOff /\ TokenOff /\ StartOff /\ RetrInit
SpecRetr == SpecRetrInit /\ [][RetrNext]_vars

(***************************************************************************)
(* Properties of the dual-store chatbot                                    *)
(***************************************************************************)
Range(s) == {s[i] : i \in 1 .. Len(s)}

\* the position at which x first occurs in s
FirstIndex(s, x) == CHOOSE i \in 1 .. Len(s) : s[i] = x /\ \A j \in 1 .. i - 1 : s[j] # x

\* the passages of a context string: what stands between the separators
Passages(ctx) == [i \in 1 .. (Len(ctx) + 1) \div 2 |-> ctx[2 * i - 1]]
SeparatorsBetween(ctx) ==
  /\ Len(ctx) % 2 = 1
  /\ \A i \in 1 .. Len(ctx) : (ctx[i] = SEP) <=> (i % 2 = 0)

\* C1: after generate_response, whatever lists the Pinecone and the Qdrant
\* search returned, the context of the system prompt holds the distinct passage
\* texts of Pinecone's list followed by Qdrant's, each once, in the order in
\* which they first occur, and only the first five of them.
C1_ContextDeduplicated ==
  (queryOp.op = "generate" /\ AllContexts(search_results) # <<>>) =>
    LET all == AllContexts(search_results)
        P == Passages(context)
    IN /\ SeparatorsBetween(context)
       /\ Len(P) <= 5
       /\ Len(P) = Min(5, Cardinality(Range(all)))
       /\ \A i \in 1 .. Len(P) : P[i] \in Range(all)
       /\ \A i, j \in 1 .. Len(P) :
            i < j => P[i] # P[j] /\ FirstIndex(all, P[i]) < FirstIndex(all, P[j])
       /\ \A t \in Range(all) \ Range(P) :
            \A i \in 1 .. Len(P) : FirstIndex(all, P[i]) < FirstIndex(all, t)

\* C1 witness: both stores returned three passages, one text is repeated
\* across the two lists, and the context holds the five distinct texts.
C1_Witness ==
  /\ queryOp.op = "generate"
  /\ Len(search_results.pinecone) = 3
  /\ Len(search_results.qdrant) = 3
  /\ Cardinality(Range(AllContexts(search_results))) = 5
  /\ Len(Passages(context)) = 5

\* what one store holds after a call, given what it held before: the records
\* of the call upserted when the store's own upsert went through, nothing new
\* when the block was skipped or its upsert raised
StoreAfter(before, outcome, out, u) ==
  IF outcome = "ok" THEN Upsert(before, StoreRecords(out.texts, out.metadata, u))
  ELSE before

\* C2: in an add_knowledge call with texts, no exception of a store's upsert
\* leaves the call, every enabled store's upsert is attempted, and whether a
\* store's upsert takes effect depends on that store alone: a store whose own
\* upsert does not raise ends up holding the records of the call, whether or
\* not the other store's upsert raised.
C2_StoreFailuresIsolated ==
  [][(addCalls' = addCalls + 1 /\ addOut'.texts # <<>>) =>
       /\ ~addOut'.raised
       /\ addOut'.pinecone =
            (IF ~use_pinecone THEN "skipped"
             ELSE IF addOut'.pc_raises \/ ~pinecone_index THEN "raised" ELSE "ok")
       /\ addOut'.qdrant =
            (IF ~use_qdrant THEN "skipped"
             ELSE IF addOut'.qd_raises \/ ~qdrant_collection THEN "raised" ELSE "ok")
       /\ pcStore' = StoreAfter(pcStore, addOut'.pinecone, addOut', addOut'.uuidPinecone)
       /\ qdStore' = StoreAfter(qdStore, addOut'.qdrant, addOut', addOut'.uuidQdrant)
    ]_vars

\* C2 witness: Pinecone's upsert raised and Qdrant's stored the records of
\* the call.
C2_Witness ==
  /\ addCalls = 1
  /\ addOut.pinecone = "raised"
  /\ addOut.qdrant = "ok"
  /\ \E i \in 1 .. Len(addOut.texts) :
       \E id \in DOMAIN qdStore : qdStore[id].values = Embed(addOut.texts[i])
  /\ ~addOut.raised

\* the entries search_knowledge makes of a store's matches when nothing fails
EntriesOf(matches) ==
  [i \in 1 .. Len(matches) |-> [text |-> matches[i].text, metadata |-> matches[i]]]

\* C3 (as claimed): after search_knowledge, a store whose search failed, at
\* the query call or while its matches were read, has an empty list in the
\* result, and the list of the other store is what its matches give.
C3_FailedStoreListEmpty ==
  queryOp.op = "search" =>
    /\ queryOp.pcOutcome = "raised" => search_results.pinecone = <<>>
    /\ queryOp.qdOutcome = "raised" => search_results.qdrant = <<>>
    /\ (queryOp.pcOutcome = "raised" /\ queryOp.qdOutcome = "ok") =>
         search_results.qdrant = EntriesOf(queryOp.qdResp.matches)
    /\ (queryOp.qdOutcome = "raised" /\ queryOp.pcOutcome = "ok") =>
         search_results.pinecone = EntriesOf(queryOp.pcResp.matches)

(***************************************************************************)
(* Properties of the badge API                                             *)
(***************************************************************************)
InMirror(u) == \E i \in 1 .. Len(mirror.data) : mirror.data[i] = BadgeRecord(u)

\* C4: in /uploadMetadata the image upload comes before the metadata upload,
\* which comes before a metadata URI is returned; a request whose metadata
\* upload raised after its image upload went through has ended with an error
\* response, not a metadata URI, and has no record in the local file.
C4_UploadSagaOrdered ==
  \A u \in UploadReqs :
    /\ metaUp[u] # "none" => imgUp[u] = "ok"
    /\ uresp[u].kind = "metadata_uri" => metaUp[u] = "ok"
    /\ (imgUp[u] = "ok" /\ metaUp[u] = "raised") =>
         /\ upc[u] = "done"
         /\ uresp[u].status >= 400
         /\ uresp[u].kind # "metadata_uri"
         /\ ~InMirror(u)

\* C4 witness: a request whose image is pinned and whose metadata upload
\* raised has been answered.
C4_Witness ==
  \E u \in UploadReqs :
    /\ imgUp[u] = "ok"
    /\ u \in pinnedImages
    /\ metaUp[u] = "raised"
    /\ upc[u] = "done"

SagaFailed(u) ==
  imgUp[u] = "raised" \/ shortUp[u] = "raised" \/ metaUp[u] = "raised"
    \/ logUp[u] = "raised"

\* C5 (as claimed): a request of /uploadMetadata one of whose steps (image
\* upload, URL shortening, metadata upload, write of the local file) failed is
\* answered with HTTP 400, and an image already uploaded stays uploaded.
C5_SagaFailureIs400 ==
  \A u \in UploadReqs :
    (upc[u] = "done" /\ SagaFailed(u)) =>
      /\ uresp[u].status = 400
      /\ imgUp[u] = "ok" => u \in pinnedImages

\* C6: the nonce a /mintBadge request reads is the account's transaction count
\* at that moment, whatever other requests have read and not yet broadcast,
\* and the transaction it broadcasts carries the nonce it read: two requests
\* may read and broadcast the same nonce.
C6_NonceReadThenUse ==
  [][\A r \in MintReqs :
       /\ (mpc[r] = "start" /\ mpc'[r] = "nonce") => nonce'[r] = txCount
       /\ sends'[r] # sends[r] => sentNonce'[r] = nonce[r]
    ]_vars

\* C6 witness: two requests have broadcast a transaction with the same nonce.
C6_Witness ==
  \E r1, r2 \in MintReqs :
    /\ r1 # r2
    /\ sends[r1] = 1
    /\ sends[r2] = 1
    /\ sentNonce[r1] = sentNonce[r2]

NodeHas(r) == \E tx \in pending \cup mined : tx.req = r

\* C7: a /mintBadge request reads the nonce at most once and broadcasts at
\* most one transaction; it is answered in the step of the broadcast (no wait
\* for a receipt) or of the exception (no retry): with the transaction hash
\* exactly when the node took its transaction, with HTTP 400 exactly when one
\* of its steps raised.
C7_MintOneShot ==
  \A r \in MintReqs :
    /\ reads[r] <= 1
    /\ sends[r] <= 1
    /\ sends[r] = 1 => reads[r] = 1 /\ mpc[r] = "done"
    /\ mpc[r] # "done" => mresp[r] = NoResponse
    /\ mpc[r] = "done" =>
         /\ mresp[r] \in {TxHash200, Error400}
         /\ mresp[r] = TxHash200 <=> (sends[r] = 1 /\ NodeHas(r))
         /\ mresp[r] = Error400 <=> raisedAt[r] # "none"

\* C7 witness: a request has been answered with the transaction hash while
\* its transaction is still pending, and another one with HTTP 400.
C7_Witness ==
  \E r1, r2 \in MintReqs :
    /\ mresp[r1] = TxHash200
    /\ \E tx \in pending : tx.req = r1
    /\ mresp[r2] = Error400
    /\ sends[r2] = 1

SixFields ==
  {"Student Name", "Badge Grant Date", "Badge Type", "Class or Semester",
   "University", "Certificate URL"}

\* the value of an attribute of a document: that of the last attribute of
\* that key, "N/A" without one
AttrValue(doc, key) ==
  IF "attributes" \in DOMAIN doc
       /\ \E i \in 1 .. Len(doc.attributes) : key \in DOMAIN doc.attributes[i]
  THEN LET last == CHOOSE i \in 1 .. Len(doc.attributes) :
                     /\ key \in DOMAIN doc.attributes[i]
                     /\ \A j \in i + 1 .. Len(doc.attributes) :
                          key \notin DOMAIN doc.attributes[j]
       IN doc.attributes[last][key]
  ELSE "N/A"

\* the record of the listing for a document
ExpectedRecord(doc) ==
  [f \in SixFields |->
     CASE f = "Student Name" -> AttrValue(doc, "Student")
       [] f = "Badge Grant Date" -> AttrValue(doc, "Date")
       [] f = "Badge Type" -> AttrValue(doc, "Badge Type")
       [] f = "Class or Semester" -> AttrValue(doc, "Class")
       [] f = "University" -> AttrValue(doc, "University")
       [] f = "Certificate URL" ->
            IF "certificate_url" \in DOMAIN doc THEN doc.certificate_url ELSE "N/A"]

\* the request was served with totalSupply = n >= 1 and every tokenURI call
\* answered
ListedWithUris ==
  /\ lresp # NoResponse
  /\ ~totalSupply.raises
  /\ totalSupply.value >= 1
  /\ \A i \in 1 .. totalSupply.value : tokenURI[i] = "ok"

Resolves(i) == gateway[i].kind = "ok" /\ WellFormed(gateway[i].doc)

\* C8: when totalSupply = n >= 1 and the token URI of every id 1..n resolves
\* to a metadata document, the listing is a 200 response of exactly n records,
\* the i-th being that of token i, each with exactly the six fields.
C8_ListingShape ==
  (ListedWithUris /\ \A i \in 1 .. totalSupply.value : Resolves(i)) =>
    /\ lresp.status = 200
    /\ lresp.kind = "list"
    /\ Len(lresp.body) = totalSupply.value
    /\ \A i \in 1 .. Len(lresp.body) :
         /\ DOMAIN lresp.body[i] = SixFields
         /\ lresp.body[i] = ExpectedRecord(gateway[i].doc)

\* C8 witness: a listing of at least two resolvable tokens with different
\* records.
C8_Witness ==
  /\ ListedWithUris
  /\ \A i \in 1 .. totalSupply.value : Resolves(i)
  /\ lresp.kind = "list"
  /\ Len(lresp.body) >= 2
  /\ lresp.body[1] # lresp.body[2]

\* the token ids whose document was fetched with status 200, and the k-th
OkIds == {i \in 1 .. totalSupply.value : gateway[i].kind = "ok"}
KthOk(k) == CHOOSE i \in OkIds : Cardinality({j \in OkIds : j <= i}) = k

C10_PersistedIndexShortCircuits ==
  [][/\ (mm_calls' # mm_calls /\ IndexPersisted) =>
          /\ (Readable(faiss_index_file) /\ Readable(nodes_data_file)) =>
               mm_result' = [kind |-> "returned",
                             index |-> faiss_index_file.content,
                             nodes |-> nodes_data_file.content]
          /\ mmpc' = "idle"
          /\ mm_printed' = "Loading existing FAISS index..."
          /\ UNCHANGED <<mm_counts, mmFiles, pdf>>
     /\ (mmpc = "index_written" /\ mm_result'.kind = "returned") =>
          /\ faiss_index_file' = [exists |-> TRUE, content |-> mm_result'.index]
          /\ nodes_data_file' = [exists |-> TRUE, content |-> mm_result'.nodes]
    ]_vars

\* C10 witness: the first call of the process built the index, another
\* document was uploaded, and the second call returned the index and the
\* nodes of the first document from the files.
C10_Witness ==
  /\ mm_calls = 2
  /\ mm_counts.parse = 1
  /\ mmpc = "idle"
  /\ mm_printed = "Loading existing FAISS index..."
  /\ mm_result.kind = "returned"
  /\ Readable(nodes_data_file)
  /\ mm_result.nodes = nodes_data_file.content
  /\ \E i \in 1 .. Len(pdf.pages) :
       \A j \in 1 .. Len(mm_result.nodes) : mm_result.nodes[j].text # pdf.pages[i]

\* every file of the pair that exists can be read
PairIntact ==
  /\ faiss_index_file.exists => Readable(faiss_index_file)
  /\ nodes_data_file.exists => Readable(nodes_data_file)

\* the chunk list has one entry per vector of the index
InStep == Len(nodes_data_file.content) = Len(faiss_index_file.content.vectors)

\* C11 (as claimed): a load_or_create_index call uses the persisted index only
\* when both files are present and the node list has one entry per vector of
\* the index; with a file missing or the two out of step it rebuilds.
C11_PersistedUsedOnlyIfInStep ==
  [][(mm_calls' # mm_calls /\ PairIntact) =>
       IF IndexPersisted /\ InStep
       THEN /\ mm_result'.kind = "returned"
            /\ mm_printed' = "Loading existing FAISS index..."
       ELSE /\ mmpc' = "create"
            /\ mm_printed' = "Creating new FAISS index..."
    ]_vars

MMOrder ==
  {<<"create", "parsed">>, <<"parsed", "imaged">>, <<"imaged", "embedded">>,
   <<"embedded", "index_written">>}

\* C14 (as claimed): a creating run parses, then captions the images, then
\* embeds and builds the index, then writes the index file, then the nodes
\* file; it returns only with both files written; and a run stopped with the
\* nodes file not yet written leaves the files such that the next call
\* creates again.
C14_CreateOrderAndNoIndexOnInterrupt ==
  [][/\ (mmpc' # mmpc /\ mmpc' # "idle" /\ mmpc # "idle") => <<mmpc, mmpc'>> \in MMOrder
     /\ mm_counts'.parse # mm_counts.parse => mmpc = "create"
     /\ mm_counts'.caption # mm_counts.caption => mmpc = "parsed"
     /\ mm_counts'.embed # mm_counts.embed => mmpc = "imaged"
     /\ (faiss_index_file' # faiss_index_file /\ Readable(faiss_index_file')) =>
          mmpc = "embedded"
     /\ (nodes_data_file' # nodes_data_file /\ Readable(nodes_data_file')) =>
          /\ mmpc = "index_written"
          /\ faiss_index_file = [exists |-> TRUE, content |-> mm_local.index]
     /\ (mm_result' # mm_result /\ mm_result'.kind = "returned") =>
          /\ faiss_index_file' = [exists |-> TRUE, content |-> mm_result'.index]
          /\ nodes_data_file' = [exists |-> TRUE, content |-> mm_result'.nodes]
     /\ (mm_result'.kind = "interrupted" /\ mm_result.kind = "running"
           /\ nodes_data_file' = nodes_data_file) =>
          ~(faiss_index_file'.exists /\ nodes_data_file'.exists)
    ]_vars

\* the i-th image of the PDF fails at some step
ImageFails(doc, i) ==
  \/ doc.images[i][2].pixmap = "raises"
  \/ /\ doc.images[i][2].pixmap = "ok"
     /\ doc.images[i][2].blip_raises \/ doc.images[i][2].mistral_raises

\* the entries of the result for the i-th image of the PDF
ImageEntriesOf(doc, i, content) ==
  {k \in 1 .. Len(content) :
     /\ content[k].type = "image"
     /\ content[k].page = doc.images[i][1]
     /\ content[k].image_index = ImgIndex(doc.images, i)}

HasPlaceholder(e) ==
  e.caption = CaptionFailed \/ e.detailed_description = AnalysisUnavailable

\* C13 as stated: once the PDF is open, process_pdf returns whatever fails on
\* an image, and every failing image has an entry holding a placeholder
\* error string.
C13_FailingImageKeptAsPlaceholder ==
  (proc_out.op = "process_pdf"
     /\ ~(proc_out.outcome = "raised" /\ proc_out.where = "open"))
    => /\ proc_out.outcome = "returned"
       /\ \A i \in 1 .. Len(proc_out.doc.images) :
            ImageFails(proc_out.doc, i)
              => \E k \in ImageEntriesOf(proc_out.doc, i, proc_out.content) :
                   HasPlaceholder(proc_out.content[k])

\* C13 amended: once the PDF is open, process_pdf returns whatever fails on
\* an image and the images after a failing one are still processed; an image
\* whose BLIP caption or Mistral analysis fails keeps its entry, with the
\* placeholder string in the place of the failed part; an image whose pixmap
\* extraction raises has no entry and one error line is printed for it.
C13_ImageFailuresDegrade ==
  (proc_out.op = "process_pdf"
     /\ ~(proc_out.outcome = "raised" /\ proc_out.where = "open"))
    => /\ proc_out.outcome = "returned"
       /\ \A i \in 1 .. Len(proc_out.doc.images) :
            LET kind == proc_out.doc.images[i][2]
                mine == ImageEntriesOf(proc_out.doc, i, proc_out.content)
            IN /\ kind.pixmap = "raises" => mine = {}
               /\ kind.pixmap = "ok"
                    => /\ Cardinality(mine) = 1
                       /\ \A k \in mine :
                            /\ (proc_out.content[k].caption = CaptionFailed)
                                 = kind.blip_raises
                            /\ (proc_out.content[k].detailed_description
                                  = AnalysisUnavailable) = kind.mistral_raises
       /\ proc_out.printed_errors
            = Cardinality({i \in 1 .. Len(proc_out.doc.images) :
                             proc_out.doc.images[i][2].pixmap = "raises"})

\* a PDF whose first image fails at pixmap extraction, whose second fails at
\* BLIP and whose third fails at Mistral: two image entries come back
C13_Witness ==
  /\ proc_out.op = "process_pdf"
  /\ proc_out.outcome = "returned"
  /\ Len(proc_out.doc.images) = 3
  /\ proc_out.doc.images[1][2].pixmap = "raises"
  /\ proc_out.doc.images[2][2].pixmap = "ok"
  /\ proc_out.doc.images[2][2].blip_raises
  /\ proc_out.doc.images[3][2].pixmap = "ok"
  /\ proc_out.doc.images[3][2].mistral_raises
  /\ Cardinality({k \in 1 .. Len(proc_out.content) :
                    proc_out.content[k].type = "image"}) = 2

\* the two files of ChatBot-MM-LParse-UI.py are partially present or corrupt
PairDamaged ==
  /\ faiss_index_file.exists \/ nodes_data_file.exists
  /\ ~(Readable(faiss_index_file) /\ Readable(nodes_data_file))

\* the database directory of RAG-MultiModal.py is partially present or corrupt
DbDamaged ==
  /\ proc_db.dir
  /\ ~(Readable(proc_db.index) /\ Readable(proc_db.metadata)
         /\ Readable(proc_db.documents))

\* C12 as stated: with the persisted files partially present or corrupt, a
\* load_or_create_index call and a load_database call both raise: no rebuild
\* is started and nothing is loaded.
C12_DamagedFilesFailRun ==
  [][/\ (mm_calls' # mm_calls /\ PairDamaged)
          => mm_result'.kind = "raised" /\ mmpc' = "idle"
     /\ (proc_out' # proc_out /\ proc_out'.op = "load_database" /\ DbDamaged)
          => proc_out'.outcome = "raised"
    ]_vars

\* C12 amended: load_database raises, and rebuilds nothing, when the directory
\* exists and one of its three files is missing or cannot be read;
\* load_or_create_index raises when both of its files exist and one cannot be
\* read, and starts a rebuild without any error when only one of them exists.
C12_DamagedFilesRaiseOrRebuild ==
  [][/\ (mm_calls' # mm_calls /\ PairDamaged)
          => IF IndexPersisted
             THEN /\ mm_result'.kind = "raised"
                  /\ mmpc' = "idle"
                  /\ mm_counts' = mm_counts
             ELSE /\ mmpc' = "create"
                  /\ mm_printed' = "Creating new FAISS index..."
     /\ (proc_out' # proc_out /\ proc_out'.op = "load_database" /\ DbDamaged)
          => /\ proc_out'.outcome = "raised"
             /\ ~proc_out'.loaded
             /\ proc_db' = proc_db
             /\ proc'.documents = proc.documents
    ]_vars

\* load_database has raised on a directory whose documents file was removed
\* after a complete save
C12_Witness ==
  /\ proc_out.op = "load_database"
  /\ proc_out.outcome = "raised"
  /\ proc_db.dir
  /\ Readable(proc_db.index)
  /\ Readable(proc_db.metadata)
  /\ ~proc_db.documents.exists

\* load_or_create_index has started a rebuild with only the nodes file present
C12_WitnessRebuild ==
  /\ mmpc = "create"
  /\ ~faiss_index_file.exists
  /\ Readable(nodes_data_file)

\* what an entered store block handed to upsert agrees with the texts:
\* one record per (text, metadata) pair, with the text's embedding
SentMatches(sent) ==
  /\ Len(sent) = Min(Len(addOut.texts), Len(addOut.metadata))
  /\ \A i \in 1 .. Len(sent) :
       /\ sent[i].values = Embed(addOut.texts[i])
       /\ sent[i].metadata.text
            = IF "text" \in DOMAIN addOut.metadata[i]
              THEN addOut.metadata[i].text ELSE addOut.texts[i]

\* C15: add_knowledge of a non-empty list calls the embedding model once; every
\* enabled store is handed, text by text, the same vector and the same
\* payload; with metadata omitted the payload of a text is exactly its text
\* and a generated id.
C15_SameVectorAndPayload ==
  (addCalls = 1 /\ addOut.texts # <<>>)
    => /\ addOut.encode_calls = 1
       /\ addOut.pinecone # "skipped" => SentMatches(addOut.pcSent)
       /\ addOut.qdrant # "skipped" => SentMatches(addOut.qdSent)
       /\ (addOut.pinecone # "skipped" /\ addOut.qdrant # "skipped")
            => /\ Len(addOut.pcSent) = Len(addOut.qdSent)
               /\ \A i \in 1 .. Len(addOut.pcSent) :
                    /\ addOut.pcSent[i].values = addOut.qdSent[i].values
                    /\ addOut.pcSent[i].metadata = addOut.qdSent[i].metadata
       /\ ~addOut.given
            => \A sent \in {addOut.pcSent, addOut.qdSent} :
                 \A i \in 1 .. Len(sent) :
                   /\ DOMAIN sent[i].metadata = {"text", "id"}
                   /\ sent[i].metadata.text = addOut.texts[i]
                   /\ \E n \in 0 .. 2 * MaxAddTexts : sent[i].metadata.id = Uuid(n)

\* two texts, metadata omitted, both stores written
C15_Witness ==
  /\ addCalls = 1
  /\ Len(addOut.texts) = 2
  /\ ~addOut.given
  /\ addOut.pinecone = "ok"
  /\ addOut.qdrant = "ok"
  /\ Len(addOut.pcSent) = 2
  /\ addOut.pcSent[2].metadata = addOut.qdSent[2].metadata

\* the longest prefix of the matches in which every match has a text
RECURSIVE ReadablePrefix(_)
ReadablePrefix(matches) ==
  IF matches = <<>> \/ "text" \notin DOMAIN Head(matches) THEN <<>>
  ELSE <<Head(matches)>> \o ReadablePrefix(Tail(matches))

\* what a search aimed at one store alone puts in that store's list
AloneResult(enabled, handle, resp) ==
  IF enabled /\ handle /\ ~resp.raises
  THEN EntriesOf(ReadablePrefix(resp.matches))
  ELSE <<>>

\* C16: search_knowledge queries a store only if the store is enabled and
\* targeted, and at most once; the list of a store that is not targeted is
\* empty; compare_databases returns, for each store, the list of a search
\* aimed at that store alone, and queries each store at most once.
C16_OnlyTargetedStoresQueried ==
  /\ queryOp.op \in {"search", "generate"}
       => /\ queryOp.pcQueries \in {0, 1}
          /\ queryOp.qdQueries \in {0, 1}
          /\ queryOp.pcQueries = 1
               => use_pinecone /\ queryOp.db_type \in {"pinecone", "both"}
          /\ queryOp.qdQueries = 1
               => use_qdrant /\ queryOp.db_type \in {"qdrant", "both"}
          /\ queryOp.db_type = "qdrant" => search_results.pinecone = <<>>
          /\ queryOp.db_type = "pinecone" => search_results.qdrant = <<>>
  /\ queryOp.op = "compare"
       => /\ queryOp.pcQueries \in {0, 1}
          /\ queryOp.qdQueries \in {0, 1}
          /\ reply.pinecone_results
               = AloneResult(use_pinecone, pinecone_index, queryOp.pcResp)
          /\ reply.qdrant_results
               = AloneResult(use_qdrant, qdrant_collection, queryOp.qdResp)

\* a search aimed at Qdrant while Pinecone would have answered with a match
C16_Witness ==
  /\ queryOp.op = "search"
  /\ queryOp.db_type = "qdrant"
  /\ use_pinecone
  /\ pinecone_index
  /\ ~queryOp.pcResp.raises
  /\ queryOp.pcResp.matches # <<>>
  /\ queryOp.pcQueries = 0
  /\ queryOp.qdQueries = 1
  /\ search_results.pinecone = <<>>
  /\ search_results.qdrant # <<>>

\* C17: when generate_response retrieved no passage from any store, the
\* context of the system prompt is the string "No relevant information
\* found." and not the empty string; every generate_response call makes
\* exactly one completion call.
C17_NoPassageExplicitContext ==
  queryOp.op = "generate"
    => /\ completions = 1
       /\ (search_results.pinecone = <<>> /\ search_results.qdrant = <<>>)
            => context = <<NoRelevant>> /\ context # <<>> /\ context # <<"">>

\* a generate_response call in which both stores answered with no match
C17_Witness ==
  /\ queryOp.op = "generate"
  /\ queryOp.db_type = "both"
  /\ queryOp.pcOutcome = "ok"
  /\ queryOp.qdOutcome = "ok"
  /\ search_results.pinecone = <<>>
  /\ search_results.qdrant = <<>>
  /\ context = <<NoRelevant>>

\* the records of the local file, none when the file does not exist
MirrorRecords(file) == IF file.exists THEN file.data ELSE <<>>

C19_SuccessIsAlwaysList ==
  lresp.status = 200
    => /\ lresp.kind = "list"
       /\ \A i \in 1 .. Len(lresp.body) : DOMAIN lresp.body[i] = SixFields
       /\ totalSupply.value = 0 => lresp.body = <<>>

\* C19 amended: a response of GET /list_minted_badges with status 200 is, for
\* a total supply of at least one, a list of records of the six fields with
\* at most one record per token, and for a total supply of zero the JSON
\* number 0, not a list.
C19_SuccessIsListOrZero ==
  lresp.status = 200
    => IF totalSupply.value >= 1
       THEN /\ lresp.kind = "list"
            /\ Len(lresp.body) <= totalSupply.value
            /\ \A i \in 1 .. Len(lresp.body) : DOMAIN lresp.body[i] = SixFields
       ELSE /\ lresp.kind = "number"
            /\ lresp.number = 0

\* the listing of a contract whose total supply is zero was answered
C19_Witness ==
  /\ ~totalSupply.raises
  /\ totalSupply.value = 0
  /\ lresp.status = 200
  /\ lresp.kind = "number"

\* the responses of the five endpoints
ApiResponses ==
  {mresp[r] : r \in MintReqs} \cup {uresp[u] : u \in UploadReqs}
    \cup {lresp, cresp, gresp}

\* C20 (as claimed): every failure response of the five endpoints has status
\* 400 and a JSON body of the single key "error".
C20_FailuresAre400Error ==
  \A resp \in ApiResponses :
    resp.status \notin {0, 200}
      => resp.status = 400 /\ BodyKeys(resp) = {"error"}

(***************************************************************************)
(* Properties of the token reader                                          *)
(***************************************************************************)
TokenMethods == {"symbol", "decimals", "totalSupply", "balanceOf"}

\* the results of tokens printed so far
PrintedTokens == SelectSeq(tk_printed, LAMBDA line : line.kind = "token")

\* C21 as stated: each method of each token is called at most once, a failed
\* call ends the run, and a run ended by a failed call has printed the
\* results of no token.
C21_FailFastNoOutput ==
  /\ \A t \in Tokens : \A m \in TokenMethods : tk_calls[t][m] <= 1
  /\ tk_failed >= 1 => tk_status = "error"
  /\ tk_status = "error" => PrintedTokens = <<>>

\* C21 amended: each method of each token is called at most once; the first
\* call that fails ends the run (no later call is made), and at that point
\* the results of the tokens before the failing one have been printed, in
\* order, and nothing of the failing token or of a later one.
C21_FailFastEarlierTokensPrinted ==
  /\ \A t \in Tokens : \A m \in TokenMethods : tk_calls[t][m] <= 1
  /\ tk_failed >= 1 => tk_status = "error" /\ tk_failed = 1
  /\ tk_status = "error"
       => /\ tk_failed = 1
          /\ Len(PrintedTokens) = tk_pc.token - 1
          /\ \A t \in 1 .. tk_pc.token - 1 :
               PrintedTokens[t].symbol = tk_chain[t].symbol
          /\ \A t \in Tokens : \A m \in TokenMethods :
               tk_calls[t][m] = 1
                 <=> \/ t < tk_pc.token
                     \/ /\ t = tk_pc.token
                        /\ \E k \in 1 .. tk_pc.step : TokenSteps[k] = m

\* the run ended at a failing call of the third token, after the results of
\* two tokens were printed
C21_Witness ==
  /\ tk_status = "error"
  /\ tk_pc.token = 3
  /\ Len(PrintedTokens) = 2

\* the digits of value * 10**dec, for a printed value
RECURSIVE StripLeadingZeros(_)
StripLeadingZeros(digits) ==
  IF Len(digits) > 1 /\ Head(digits) = 0 THEN StripLeadingZeros(Tail(digits))
  ELSE digits

TimesPow10(value, dec) ==
  StripLeadingZeros(
    IF dec = 0 THEN value.int
    ELSE value.int \o value.frac \o Zeros(dec - Len(value.frac)))

\* C22: the total supply and the balance printed for a token, multiplied by
\* 10 to the decimals of that token's contract, are the integers the
\* contract returned; 123000000000000000000 with 18 decimals is printed as
\* 123.0.
C22_NormalizedByOwnDecimals ==
  \A t \in 1 .. Len(PrintedTokens) :
    /\ tk_chain[t].decimals >= 1
         => Len(PrintedTokens[t].totalSupply.frac) <= tk_chain[t].decimals
    /\ tk_chain[t].decimals = 0 => PrintedTokens[t].totalSupply.frac = <<0>>
    /\ TimesPow10(PrintedTokens[t].totalSupply, tk_chain[t].decimals)
         = tk_chain[t].totalSupply
    /\ TimesPow10(PrintedTokens[t].addr_balance, tk_chain[t].decimals)
         = tk_chain[t].balanceOf
    /\ (tk_chain[t].totalSupply = <<1, 2, 3>> \o Zeros(18)
          /\ tk_chain[t].decimals = 18)
         => PrintedTokens[t].totalSupply = [int |-> <<1, 2, 3>>, frac |-> <<0>>]

\* a token of 6 decimals printed after a token of 18 decimals whose supply is
\* 123000000000000000000
C22_Witness ==
  /\ Len(PrintedTokens) >= 2
  /\ tk_chain[1].decimals = 18
  /\ PrintedTokens[1].totalSupply = [int |-> <<1, 2, 3>>, frac |-> <<0>>]
  /\ tk_chain[2].decimals = 6
  /\ PrintedTokens[2].totalSupply = [int |-> <<1>>, frac |-> <<2, 3, 4, 5, 6, 7>>]

\* C23 (as claimed): a process started without one of the variables it
\* requires fails at start: it never serves a request and sends nothing to
\* an external service.
C23_MissingCredentialFailsAtStart ==
  (st_status # "off" /\ Required(st_prog) \ st_env # {})
    => /\ st_status \in {"starting", "failed"}
       /\ st_served = {}
       /\ st_calls = {}

\* C24 (as claimed): on a constructed chatbot an enabled flag implies that
\* the store's client handle exists, and add_knowledge never enters the block
\* of a store whose initialisation failed or was skipped.
C24_EnabledImpliesInitialised ==
  /\ use_pinecone => pinecone_index
  /\ use_qdrant => qdrant_collection
  /\ addCalls > 0 /\ addOut.texts # <<>> =>
       /\ ~pinecone_index => addOut.pinecone = "skipped"
       /\ ~qdrant_collection => addOut.qdrant = "skipped"

\* the records add_knowledge sent to a store are one per input text, each
\* with the text it was built from
OnePerText(sent, texts) ==
  /\ Len(sent) = Len(texts)
  /\ \A i \in 1 .. Min(Len(sent), Len(texts)) : sent[i].metadata.text = texts[i]

\* C25 (as claimed): with a metadata list supplied by the caller, each
\* enabled store receives one record per input text whose stored text is
\* that text, and the record of a text has the same id in both stores.
C25_OneRecordPerTextSameId ==
  (addCalls > 0 /\ addOut.texts # <<>> /\ addOut.given) =>
    /\ addOut.pinecone # "skipped" => OnePerText(addOut.pcSent, addOut.texts)
    /\ addOut.qdrant # "skipped" => OnePerText(addOut.qdSent, addOut.texts)
    /\ (addOut.pinecone # "skipped" /\ addOut.qdrant # "skipped") =>
         \A i \in 1 .. Min(Len(addOut.pcSent), Len(addOut.qdSent)) :
           addOut.pcSent[i].id = addOut.qdSent[i].id

\* the positions the index reported as neighbours of the query
Reported(indices) == {indices[j] : j \in DOMAIN indices} \ {-1}

\* C26 (as claimed): query_index returns only nodes the index reported as
\* nearest neighbours, each at most once, hence at most min(k, number of
\* indexed nodes) nodes: a -1 marker is not turned into a node.
C26_OnlyReportedNeighbours ==
  rt_out.fn = "query_index" =>
    /\ \A j \in DOMAIN rt_out.result :
         \E i \in Reported(rt_out.indices) : rt_out.result[j] = rt_nodes[i + 1]
    /\ \A i, j \in DOMAIN rt_out.result :
         rt_out.result[i] = rt_out.result[j] => i = j
    /\ Len(rt_out.result) <= Min(rt_out.k, Len(rt_nodes))

\* the node list has one node per page text and one per image of doc
CoversDocument(nodes, doc) ==
  /\ Len(nodes) = Len(doc.pages) + Len(doc.images)
  /\ \A i \in 1 .. Len(doc.pages) :
       \E j \in 1 .. Len(nodes) : nodes[j] = TextNode(doc.pages[i], [page |-> i])
  /\ \A i \in 1 .. Len(doc.images) :
       \E j \in 1 .. Len(nodes) : nodes[j].metadata = [path |-> doc.images[i]]

\* C27 (as claimed): an index that load_or_create_index builds has one node
\* for every page text and one for every image of the parsed document,
\* whatever builds, deletions of the index files and rebuilds came before.
C27_BuiltIndexCoversDocument ==
  [][(mmpc = "index_written" /\ mm_result'.kind = "returned") =>
       CoversDocument(mm_result'.nodes, pdf)]_vars

\* C28 (as claimed): after any sequence of build_vector_database,
\* save_database and load_database calls, returning early or raising
\* part-way included, either the index is None and both lists are empty, or
\* the index holds exactly len(documents) = len(metadata) vectors.
C28_IndexAndListsSameCorpus ==
  proc_pc = "ready" =>
    IF ~proc.index.built
    THEN proc.documents = <<>> /\ proc.metadata = <<>>
    ELSE /\ Len(proc.index.vectors) = Len(proc.documents)
         /\ Len(proc.documents) = Len(proc.metadata)

\* C29 (as claimed): when the /uploadMetadata requests handled concurrently
\* have all been answered with a metadata_uri, the local file holds the
\* record of each of them.
C29_ConcurrentUploadsBothRecorded ==
  (\A u \in UploadReqs : uresp[u] = MetadataUri200) =>
    /\ mirror.exists
    /\ \A u \in UploadReqs :
         \E i \in 1 .. Len(mirror.data) : mirror.data[i] = BadgeRecord(u)

\* the payload lacks a required field, or the badge type has no image file
Rejectable(u) == ~(required_fields \subseteq ureq[u].fields) \/ ~ureq[u].image_file

\* the request made none of the external calls and is not in the local file
NothingDoneFor(u) ==
  /\ imgUp[u] = "none"
  /\ shortUp[u] = "none"
  /\ metaUp[u] = "none"
  /\ logUp[u] = "none"
  /\ u \notin pinnedImages \cup pinnedMeta
  /\ ~InMirror(u)

\* C30: a POST /uploadMetadata request that lacks a required field, or whose
\* badge type has no image file, is answered by its first step with HTTP 400
\* and an error message; that step uploads nothing, shortens no URL and
\* leaves the local file as it is, and the request does nothing afterwards.
C30_InvalidRequestRejectedBeforeCalls ==
  [][\A u \in UploadReqs :
       Rejectable(u) =>
         /\ (upc[u] = "start" /\ upc'[u] # "start") =>
              /\ uresp'[u] = Error400
              /\ upc'[u] = "done"
              /\ mirror' = mirror
              /\ <<imgUp', shortUp', metaUp', logUp'>> = <<imgUp, shortUp, metaUp, logUp>>
              /\ <<pinnedImages', pinnedMeta'>> = <<pinnedImages, pinnedMeta>>
         /\ upc'[u] # "start" => (uresp'[u] = Error400 /\ NothingDoneFor(u)')
    ]_vars

\* a request without one of the fields and a request whose badge type has
\* no image file, both answered 400 with nothing uploaded
C30_Witness ==
  /\ ~(required_fields \subseteq ureq[1].fields)
  /\ uresp[1] = Error400
  /\ NothingDoneFor(1)
  /\ required_fields \subseteq ureq[2].fields
  /\ ~ureq[2].image_file
  /\ uresp[2] = Error400
  /\ NothingDoneFor(2)

====
